---------------------------- MODULE Spec2Model ----------------------------
(***************************************************************************)
(* A model of sentinel-monitor.py (class SentinelMonitor): the multi-rate  *)
(* source cache of update_data, the threat detector get_security_logs,     *)
(* and the layout computation of draw.                                     *)
(*                                                                         *)
(* Time is an integer number of seconds (time.time()).  The hard-coded     *)
(* intervals of the program keep their values; the values that come from   *)
(* the configuration file (security_alerts) are set to the small values    *)
(* of a test configuration so that windows and thresholds are crossed      *)
(* within the explored horizon.                                            *)
(***************************************************************************)
EXTENDS Integers, Sequences, FiniteSets, TLC

(***************************************************************************)
(* Bounds of the exploration and the test configuration.                   *)
(***************************************************************************)
StartTime == 100000               \* time.time() at construction (epoch seconds)
MaxElapsed == 7                   \* seconds explored after construction
MaxLoopTime == 6                  \* seconds the draw loop is followed
MaxTail == 2                      \* lines returned by one `tail` of a log
failed_login_threshold == 2       \* config security_alerts.failed_login_threshold
failed_login_window == 7          \* config security_alerts.failed_login_window
error_rate_threshold == 2         \* config security_alerts.error_rate_threshold
error_rate_window == 6            \* config security_alerts.error_rate_window
MaxUpdates == 3                   \* update_data calls counted
MaxKeys == 1                      \* key presses explored in one run
MaxHeight == 32                   \* tallest window laid out
MaxSamples == 2                   \* calls of one counter sampler explored
MaxRateTime == 2                  \* seconds over which byte and energy counters are sampled
BurstLines == 20                  \* lines of one kind in the tail of a burst
MaxConfigRate == 12                \* a refresh_rate of the configuration file above 10
MaxConfigTime == 3                 \* seconds the configured draw loop is followed
MaxRun == 640                     \* seconds of the long service run

(***************************************************************************)
(* Program constants.                                                      *)
(***************************************************************************)
DefaultFailedLoginThreshold == 20 \* DEFAULT_CONFIG security_alerts.failed_login_threshold
SecurityInterval == 5             \* get_security_logs: "Only check every 5 seconds"
HistLen == 100                    \* deque([0] * 100, maxlen=100)
TopN == 10                        \* "Only keep top 10 IPs and users"
SuspiciousCount == 3              \* suspicious_ip_history counts IPs with count >= 3


UpdateCheckInterval == 86400      \* self._update_check_interval, 24 hours
ProxyInterval == 5                \* get_proxy_stats: "Only check every 5 seconds"
ProcessInterval == 5              \* get_processes: top processes every 5 seconds
DockerStatsInterval == 10         \* get_docker_info: stats every 10 seconds
PublicIpInterval == 30            \* update_data: public IP every 30 seconds
MaxListed == 10                   \* containers and pods kept in a result: sorted(...)[:10]
DefaultRefreshRate == 2           \* DEFAULT_CONFIG['refresh_rate']
MinRefreshRate == 1               \* '+' key: max(1, refresh_rate - 1)
MaxRefreshRate == 10              \* '-' key: min(10, refresh_rate + 1)
cpu_high == 85                    \* DEFAULT_CONFIG['alerts']
cpu_critical == 95
mem_high == 80
mem_critical == 95
temp_high == 75
temp_critical == 90
battery_low == 20
battery_critical == 10

VARIABLES
    now,                    \* the clock read by time.time()
    pc,                     \* position of the draw loop
    machine,                \* the host the monitor runs on
    term,                   \* h, w = stdscr.getmaxyx()
    layout_mode,            \* self.layout_mode
    keys,                   \* history: keys pressed that changed a field
    refresh_rate,           \* self.refresh_rate
    last_update,            \* self.last_update
    first_render,           \* self._first_render
    cache,                  \* self.cache, the snapshot
    attrs,                  \* attributes created lazily (tested with hasattr)
    last_proc_check,        \* self._last_proc_check
    last_ip_check,          \* self._last_ip_check
    last_proxy_check,       \* self._last_proxy_check
    last_update_check,      \* self._last_update_check
    docker_available,       \* self._docker_available
    kubectl_available,      \* self._kubectl_available
    docker_stats_time,      \* self._docker_stats_time
    public_ip_cache,        \* self._public_ip_cache
    update_available,       \* self._update_available
    proxy_stats,            \* self._proxy_stats
    last_core_times,        \* self._last_core_times, one sample for each core key
    last_cpu_times,         \* self.last_cpu_times
    last_net_bytes,         \* self.last_net_bytes
    last_rapl,              \* self.last_rapl
    cpu_history,            \* self.cpu_history
    mem_history,            \* self.mem_history
    rx_history,             \* self.rx_history
    tx_history,             \* self.tx_history
    power_history,          \* self.power_history
    proxy_history,          \* self.proxy_history
    last_security_check,    \* self._last_security_check
    security_cache,         \* self._security_cache
    security_events,        \* self._security_events
    ip_failure_tracker,     \* self._ip_failure_tracker (insertion-ordered dict)
    failed_login_history,   \* self.failed_login_history
    suspicious_ip_history,  \* self.suspicious_ip_history
    boxes,                  \* the boxes handed to draw_box in the last frame
    split,                  \* the docker/k8s/security row split of the last frame
    pruned_ts,              \* history: timestamps dropped by the last prune step
    sec_call,               \* history: the last get_security_logs call
    updates,                \* history: update_data calls that passed the gate
    invoked,                \* history: getters invoked by the last update_data
    failed,                 \* history: sources whose read failed in that call
    probes,                 \* history: what each rate limit decided in that call
    docker_call,            \* history: the last get_docker_info call
    render_reads,           \* history: files read while drawing the last frame
    cpu_call,               \* history: the last get_cpu_info call
    net_call,               \* history: the last get_network_info call
    energy_call,            \* history: the last get_energy_info call
    core_call,              \* history: the last _get_per_core_usage call
    active_alerts,          \* active_alerts = self.check_alerts(data), last frame
    log_line                \* history: the last log_line of run_service_mode

secVars == <<last_security_check, security_cache, security_events,
             ip_failure_tracker, failed_login_history, suspicious_ip_history,
             pruned_ts, sec_call>>

\* the monitor's fields outside the threat detector
monVars == <<refresh_rate, last_update, first_render, cache, attrs,
             last_proc_check, last_ip_check, last_proxy_check,
             last_update_check, docker_available, kubectl_available,
             docker_stats_time, public_ip_cache, update_available,
             proxy_stats>>

histVars == <<updates, invoked, failed, probes, docker_call>>

\* the counter samples and the history buffers fed from them
sampVars == <<last_cpu_times, last_net_bytes, last_rapl, cpu_history,
              mem_history, rx_history, tx_history, power_history,
              proxy_history, cpu_call, net_call, energy_call>>

drawVars == <<boxes, split, render_reads, last_core_times, core_call,
              active_alerts, log_line>>

vars == <<now, pc, machine, term, layout_mode, keys, monVars, secVars, histVars,
          sampVars, drawVars>>

(***************************************************************************)
(* Generic helpers.                                                        *)
(***************************************************************************)
Range(s) == {s[i] : i \in 1..Len(s)}

RECURSIVE SeqSum(_)
SeqSum(s) == IF s = <<>> THEN 0 ELSE Head(s) + SeqSum(Tail(s))

Count(s, P(_)) == Cardinality({i \in 1..Len(s) : P(s[i])})

Take(s, n) == SubSeq(s, 1, IF Len(s) < n THEN Len(s) ELSE n)

(***************************************************************************)
(* History buffers: deque([0] * 100, maxlen=100).  The deque is kept as    *)
(* the number of initial zeros still in it followed by the values pushed   *)
(* since: its content is `zeros` zeros, then `vals`.                       *)
(***************************************************************************)
ZeroHistory == [zeros |-> HistLen, vals |-> <<>>]

HistoryLen(h) == h.zeros + Len(h.vals)

HistoryContent(h) == [i \in 1..h.zeros |-> 0] \o h.vals

\* a list's append: nothing falls out
PushUnbounded(h, v) == [h EXCEPT !.vals = Append(@, v)]

\* deque.append at maxlen: the oldest value falls out on the left.
Push(h, v) ==
    IF HistoryLen(h) < HistLen THEN [h EXCEPT !.vals = Append(@, v)]
    ELSE IF h.zeros > 0 THEN [zeros |-> h.zeros - 1, vals |-> Append(h.vals, v)]
    ELSE [zeros |-> 0, vals |-> Append(Tail(h.vals), v)]

(***************************************************************************)
(* Insertion-ordered dicts of counters (stats['top_ips'], ...): a sequence *)
(* of [key, count] in the order of first insertion.                        *)
(***************************************************************************)
DictHas(d, k) == \E i \in 1..Len(d) : d[i].key = k

DictGet(d, k) == IF DictHas(d, k)
                 THEN (CHOOSE e \in Range(d) : e.key = k).count
                 ELSE 0

\* d[k] = d.get(k, 0) + 1
DictInc(d, k) ==
    IF DictHas(d, k)
    THEN [i \in 1..Len(d) |->
            IF d[i].key = k THEN [d[i] EXCEPT !.count = @ + 1] ELSE d[i]]
    ELSE Append(d, [key |-> k, count |-> 1])

\* a sort that puts x in front of the elements of equal count
InsertDescBeforeTies(sorted, x) ==
    LET before == Count(sorted, LAMBDA e : e.count > x.count)
    IN  SubSeq(sorted, 1, before) \o <<x>> \o SubSeq(sorted, before + 1, Len(sorted))

\* One step of a stable descending sort: x goes behind every element whose
\* count is >= its own.
InsertDesc(sorted, x) ==
    LET before == Count(sorted, LAMBDA e : e.count >= x.count)
    IN  SubSeq(sorted, 1, before) \o <<x>> \o SubSeq(sorted, before + 1, Len(sorted))

RECURSIVE SortedDesc(_)
\* sorted(d.items(), key=lambda x: x[1], reverse=True): stable
SortedDesc(d) ==
    IF d = <<>> THEN <<>>
    ELSE InsertDesc(SortedDesc(SubSeq(d, 1, Len(d) - 1)), d[Len(d)])

TopTen(d) == Take(SortedDesc(d), TopN)

(***************************************************************************)
(* Threat detector: get_security_logs.                                     *)
(*                                                                         *)
(* A log line is [kind, user, ip]; kind stands for the text of the line:   *)
(*   invalid_user       "Invalid user bob from 10.0.0.5 port 22"           *)
(*   failed_password_invalid_user                                          *)
(*                      "Failed password for invalid user bob from         *)
(*                       10.0.0.5"                                         *)
(*   failed_then_invalid  a line holding the text of a failed_password     *)
(*                      line and then that of an invalid_user line         *)
(*   failed_password    "Failed password for root from 10.0.0.5 port 22"   *)
(*   connection_closed  "Connection closed by invalid user bob 10.0.0.5"   *)
(*   accepted           "Accepted publickey for root from 10.0.0.5"        *)
(*   other              a line no pattern matches                          *)
(*   blank              a line of white space                              *)
(***************************************************************************)
Ips == {"10.0.0.5", "10.0.0.6"}

FailureLines ==
    {[kind |-> "invalid_user", user |-> "bob", ip |-> i] : i \in Ips}
    \cup {[kind |-> "failed_password", user |-> "root", ip |-> "10.0.0.5"]}

OtherLines ==
    {[kind |-> "connection_closed", user |-> "bob", ip |-> "10.0.0.5"],
     [kind |-> "accepted", user |-> "root", ip |-> "10.0.0.5"],
     [kind |-> "other", user |-> "", ip |-> ""],
     [kind |-> "blank", user |-> "", ip |-> ""]}


FailureTails(n) == UNION {[1..m -> FailureLines] : m \in 0..n}

\* What `tail -1000 <log>` can print: up to MaxTail failure lines, or at
\* most one failure line followed by one line of another kind.
Tails ==
    FailureTails(MaxTail)
    \cup {f \o <<o>> : f \in FailureTails(1), o \in OtherLines}

\* the addresses of a scan that comes from many hosts
ScanAddresses ==
    <<"10.0.1.1", "10.0.1.2", "10.0.1.3", "10.0.1.4", "10.0.1.5", "10.0.1.6",
      "10.0.1.7", "10.0.1.8", "10.0.1.9", "10.0.1.10", "10.0.1.11", "10.0.1.12">>

\* the user names it tries, one per host
ScanUsers ==
    <<"admin", "root", "test", "guest", "oracle", "postgres", "ubuntu", "pi",
      "git", "ftp", "www", "backup">>

\* the strings [\d.]+ matches among the words of the lines
Addresses == Ips \cup Range(ScanAddresses)

\* The words of the line a kind stands for.
Words(line) ==
    CASE line.kind = "invalid_user" ->
           <<"Invalid", "user", line.user, "from", line.ip, "port", "22">>
      [] line.kind = "failed_password" ->
           <<"Failed", "password", "for", line.user, "from", line.ip, "port", "22">>
      [] line.kind = "failed_password_invalid_user" ->
           <<"Failed", "password", "for", "invalid", "user", line.user, "from",
             line.ip>>
      [] line.kind = "connection_closed" ->
           <<"Connection", "closed", "by", "invalid", "user", line.user, line.ip>>
      [] line.kind = "accepted" ->
           <<"Accepted", "publickey", "for", line.user, "from", line.ip>>
      [] line.kind = "failed_then_invalid" ->
           <<"Failed", "password", "for", line.user, "from", line.ip, "Invalid",
             "user", line.user, "from", line.ip>>
      [] line.kind = "other" -> <<"session", "opened", "for", "user", "root">>
      [] OTHER -> <<>>

\* The regular expressions of self._compiled_regex, word by word; an
\* optional group gives two sequences.
Patterns ==
    [invalid_user |-> {<<"Invalid", "user", "(\\S+)", "from", "([\\d.]+)">>},
     failed_password |->
        {<<"Failed", "password", "for", "(\\S+)", "from", "([\\d.]+)">>,
         <<"Failed", "password", "for", "invalid", "user", "(\\S+)", "from",
           "([\\d.]+)">>},
     connection_closed |-> {<<"Connection", "closed", "by", "invalid", "user">>},
     accepted_key |->
        {<<"Accepted", "password", "for", "(\\S+)", "from", "([\\d.]+)">>,
         <<"Accepted", "publickey", "for", "(\\S+)", "from", "([\\d.]+)">>}]

\* one word against one element of a pattern (the comparison of literal
\* words is case-sensitive)
WordMatches(element, word) ==
    CASE element = "(\\S+)"     -> word # ""
      [] element = "([\\d.]+)" -> word \in Addresses
      [] OTHER                 -> word = element

\* the pattern's words match the words of the line from position k on
MatchAt(pattern_words, words, k) ==
    /\ k + Len(pattern_words) - 1 <= Len(words)
    /\ \A i \in 1..Len(pattern_words) :
         WordMatches(pattern_words[i], words[k + i - 1])

\* self._compiled_regex[pattern].search(line)
Search(pattern, line) ==
    \E pattern_words \in Patterns[pattern], k \in 1..Len(Words(line)) :
        MatchAt(pattern_words, Words(line), k)

\* The stats dict a pass starts from.
DefaultStats ==
    [available |-> FALSE, total_parsed |-> 0, total_unparsed |-> 0,
     failed_logins |-> 0, successful_logins |-> 0,
     failed_ratio |-> [num |-> 0, den |-> 1],
     top_ips |-> <<>>, top_users |-> <<>>, error_types |-> <<>>,
     recent_events |-> <<>>, alerts |-> <<>>]

\* The comparison of the list comprehensions of the clean-up: t > cutoff_time
PruneKeepInclusive(t, cutoff) == t >= cutoff

PruneKeep(t, cutoff) == t > cutoff

PruneEvents(events, cutoff) ==
    SelectSeq(events, LAMBDA e : PruneKeep(e.timestamp, cutoff))

\* Every list is filtered; an IP whose list became empty is deleted.
PruneTracker(tracker, cutoff) ==
    LET filtered == [i \in 1..Len(tracker) |->
                       [tracker[i] EXCEPT
                          !.times = SelectSeq(@, LAMBDA t : PruneKeep(t, cutoff))]]
    IN  SelectSeq(filtered, LAMBDA e : e.times # <<>>)

TrackerHas(tracker, ip) == \E i \in 1..Len(tracker) : tracker[i].ip = ip

TrackerTimes(tracker, ip) ==
    IF TrackerHas(tracker, ip)
    THEN (CHOOSE e \in Range(tracker) : e.ip = ip).times
    ELSE <<>>

\* a tracker that does not stamp again an address it holds a timestamp of
\* an earlier pass for
TrackerAddUnseen(tracker, ip, t) ==
    LET tr == IF TrackerHas(tracker, ip) THEN tracker
              ELSE Append(tracker, [ip |-> ip, times |-> <<>>])
    IN  [i \in 1..Len(tr) |->
           IF tr[i].ip = ip /\ \A x \in Range(tr[i].times) : x = t
           THEN [tr[i] EXCEPT !.times = Append(@, t)] ELSE tr[i]]

\* if ip not in tracker: tracker[ip] = []; tracker[ip].append(current_time)
TrackerAdd(tracker, ip, t) ==
    LET tr == IF TrackerHas(tracker, ip) THEN tracker
              ELSE Append(tracker, [ip |-> ip, times |-> <<>>])
    IN  [i \in 1..Len(tr) |->
           IF tr[i].ip = ip THEN [tr[i] EXCEPT !.times = Append(@, t)] ELSE tr[i]]

\* The counters every failed login updates.
CountFailure(stats, line, label) ==
    [stats EXCEPT !.failed_logins = @ + 1,
                  !.top_ips = DictInc(@, line.ip),
                  !.top_users = DictInc(@, line.user),
                  !.error_types = DictInc(@, label)]

\* The invalid_user branch: counters, tracker and a SecurityEvent.
OnInvalidUser(acc, line, t) ==
    [stats   |-> CountFailure(acc.stats, line, "Invalid user attempt"),
     tracker |-> TrackerAdd(acc.tracker, line.ip, t),
     events  |-> Append(acc.events,
                        [timestamp |-> t, type |-> "failed_login",
                         user |-> line.user, ip |-> line.ip])]

\* The failed_password branch: counters and tracker; it appends no event.
OnFailedPassword(acc, line, t) ==
    [stats   |-> CountFailure(acc.stats, line, "Failed password"),
     tracker |-> TrackerAdd(acc.tracker, line.ip, t),
     events  |-> acc.events]

OnConnectionClosed(acc) ==
    [acc EXCEPT !.stats.error_types = DictInc(@, "Connection closed (invalid user)")]

\* The accepted branch: the success counter, and the IP is counted in top_ips.
OnAccepted(acc, line) ==
    [acc EXCEPT !.stats.successful_logins = @ + 1,
                !.stats.top_ips = DictInc(@, line.ip)]

\* every pattern found in the line counts it (the branches without their
\* `continue`)
ClassifyLineEveryMatch(acc, line, t) ==
    IF line.kind = "blank" THEN acc
    ELSE LET a == [acc EXCEPT !.stats.total_parsed = @ + 1]
             b == IF Search("invalid_user", line) THEN OnInvalidUser(a, line, t)
                  ELSE a
             c == IF Search("failed_password", line)
                  THEN OnFailedPassword(b, line, t) ELSE b
             d == IF Search("connection_closed", line) THEN OnConnectionClosed(c)
                  ELSE c
         IN  IF Search("accepted_key", line) THEN OnAccepted(d, line) ELSE d

\* The body of `for line in lines`: the first pattern that matches decides.
ClassifyLine(acc, line, t) ==
    IF line.kind = "blank" THEN acc
    ELSE LET a == [acc EXCEPT !.stats.total_parsed = @ + 1]
         IN  IF Search("invalid_user", line) THEN OnInvalidUser(a, line, t)
             ELSE IF Search("failed_password", line) THEN OnFailedPassword(a, line, t)
             ELSE IF Search("connection_closed", line) THEN OnConnectionClosed(a)
             ELSE IF Search("accepted_key", line) THEN OnAccepted(a, line)
             ELSE a

RECURSIVE ClassifyLines(_, _, _)
ClassifyLines(acc, lines, t) ==
    IF lines = <<>> THEN acc
    ELSE ClassifyLines(ClassifyLine(acc, Head(lines), t), Tail(lines), t)

\* the failed logins over all lines parsed
FailedRatioOfParsed(stats) ==
    IF stats.total_parsed > 0
    THEN [num |-> stats.failed_logins, den |-> stats.total_parsed]
    ELSE stats.failed_ratio

\* stats['failed_ratio'], kept as the fraction failed / total (0.0 is 0/1).
FailedRatio(stats) ==
    LET total_logins == stats.failed_logins + stats.successful_logins
    IN  IF total_logins > 0
        THEN [num |-> stats.failed_logins, den |-> total_logins]
        ELSE stats.failed_ratio

BruteForceHitStrict(n) == n > failed_login_threshold

\* len(timestamps) >= failed_login_threshold
BruteForceHit(n) == n >= failed_login_threshold

\* Alert 1: one brute_force alert per IP of the tracker that qualifies.
BruteForceAlerts(tracker) ==
    LET hit == SelectSeq(tracker, LAMBDA e : BruteForceHit(Len(e.times)))
    IN  [i \in 1..Len(hit) |->
           [type |-> "brute_force", ip |-> hit[i].ip,
            count |-> Len(hit[i].times), severity |-> "danger"]]

RecentErrors(events, t) ==
    Count(events, LAMBDA e : e.timestamp > t - error_rate_window
                             /\ e.type = "failed_login")

\* Alert 2: at most one high_error_rate alert.
ErrorRateAlerts(events, t) ==
    IF RecentErrors(events, t) >= error_rate_threshold
    THEN <<[type |-> "high_error_rate", ip |-> "",
            count |-> RecentErrors(events, t), severity |-> "warning"]>>
    ELSE <<>>

\* run_cmd strips its output: a tail of blank lines only is no output.
HasOutput(output) == \E i \in 1..Len(output) : output[i].kind # "blank"

\* a loop that goes on after a source has been analysed: the last source
\* with output is the one whose counts are returned
LastYielding(outs, i) ==
    LET yielding == {j \in i..Len(outs) :
                       outs[j].exists /\ HasOutput(outs[j].output)}
    IN  IF yielding = {} THEN 0
        ELSE CHOOSE j \in yielding : \A k \in yielding : k <= j

RECURSIVE FirstYielding(_, _)
\* The loop over self.security_logs: a source that does not exist or prints
\* nothing is skipped; the result is the index of the source that is
\* analysed (0: none).
FirstYielding(outs, i) ==
    IF i > Len(outs) THEN 0
    ELSE IF ~outs[i].exists THEN FirstYielding(outs, i + 1)
    ELSE IF ~HasOutput(outs[i].output) THEN FirstYielding(outs, i + 1)
    ELSE i

RECURSIVE TailsRun(_, _)
\* The sources on which `tail` is run in one pass, in order.
TailsRun(outs, i) ==
    IF i > Len(outs) THEN <<>>
    ELSE IF ~outs[i].exists THEN TailsRun(outs, i + 1)
    ELSE IF ~HasOutput(outs[i].output) THEN <<i>> \o TailsRun(outs, i + 1)
    ELSE <<i>>

\* The statistics and alerts computed after the loop over the lines.
FinishStats(acc, t) ==
    [stats   |-> [acc.stats EXCEPT
                    !.failed_ratio = FailedRatio(acc.stats),
                    !.top_ips = TopTen(@),
                    !.top_users = TopTen(@),
                    !.alerts = BruteForceAlerts(acc.tracker)
                               \o ErrorRateAlerts(acc.events, t)],
     tracker |-> acc.tracker,
     events  |-> acc.events]

\* The analysis of the lines of one source, up to the `break`.
AnalyseSource(events, tracker, lines, t) ==
    FinishStats(ClassifyLines([stats |-> [DefaultStats EXCEPT !.available = TRUE],
                               tracker |-> tracker, events |-> events], lines, t), t)

\* The end of a pass: the histories and the cache.
StorePass(st, t, res) ==
    [last    |-> t,
     cache   |-> res.stats,
     events  |-> res.events,
     tracker |-> res.tracker,
     failed_history |-> Push(st.failed_history, res.stats.failed_logins),
     suspicious_history |->
         Push(st.suspicious_history,
              Count(res.stats.top_ips, LAMBDA e : e.count >= SuspiciousCount))]

\* One pass (the gate has let the call through) at time t; outs[i] is what
\* the i-th configured log yields.  st holds the detector's fields.
SecurityPass(st, t, outs) ==
    LET cutoff_time == t - failed_login_window
        k == FirstYielding(outs, 1)
    IN  StorePass(st, t,
            IF k = 0
            THEN [stats   |-> DefaultStats,
                  tracker |-> PruneTracker(st.tracker, cutoff_time),
                  events  |-> PruneEvents(st.events, cutoff_time)]
            ELSE AnalyseSource(PruneEvents(st.events, cutoff_time),
                               PruneTracker(st.tracker, cutoff_time),
                               outs[k].output, t))

\* a gate that lets every call through
SecurityGateAlwaysOpen(st, t) == t >= st.last

\* get_security_logs(): the gate, then the pass.
SecurityGateOpen(st, t) == ~(t - st.last < SecurityInterval)

get_security_logs(st, t, outs) ==
    IF SecurityGateOpen(st, t) THEN SecurityPass(st, t, outs) ELSE st

(***************************************************************************)
(* What the configured logs yield in one pass.  security_logs has three    *)
(* entries (auth, secure, syslog), tried in that order.                    *)
(***************************************************************************)
NumLogSources == 3

\* A source that yields nothing: the file is missing, or tail prints nothing.
SkippedSource(i) == IF i % 2 = 1 THEN [exists |-> FALSE, output |-> <<>>]
                    ELSE [exists |-> TRUE, output |-> <<>>]

\* What the sources behind the analysed one would print if they were read.
LaterOutput == <<[kind |-> "invalid_user", user |-> "bob", ip |-> "10.0.0.6"]>>

LogsYield(k, tail) ==
    [i \in 1..NumLogSources |->
        IF i < k THEN SkippedSource(i)
        ELSE IF i = k THEN [exists |-> TRUE, output |-> tail]
        ELSE [exists |-> TRUE, output |-> LaterOutput]]

\* The first log yields any tail; or the first k - 1 logs yield nothing and
\* the k-th yields one failure line; or no log yields anything.
SecEnvs ==
    {LogsYield(1, tail) : tail \in {x \in Tails : HasOutput(x)}}
    \cup {LogsYield(k, <<[kind |-> "failed_password", user |-> "root",
                          ip |-> "10.0.0.5"]>>) : k \in 2..NumLogSources}
    \cup {[i \in 1..NumLogSources |-> SkippedSource(i)]}

(***************************************************************************)
(* Layout computation of draw().                                           *)
(***************************************************************************)
LAYOUT_MODES == <<"default", "cpu", "network", "docker", "security", "minimal">>

Max(a, b) == IF a >= b THEN a ELSE b

Min(a, b) == IF a <= b THEN a ELSE b

\* int(n * 0.t) for n >= 0: the product is a double, truncated.  For
\* 0 <= n < 330 it is floor(n * t / 10) but for 0.7 at n = 90, 170, 180,
\* where the double falls just short of the integer.
IntTimesTenths(n, t) ==
    IF t = 7 /\ n \in {90, 170, 180} THEN (n * t) \div 10 - 1
    ELSE (n * t) \div 10

\* every column by its ratio, the last one not by what is left
ColumnWidthsByRatio(w, layout) ==
    IF w >= 100
    THEN CASE layout = "cpu"     -> <<w \div 2, w \div 4, w \div 4>>
           [] layout = "network" -> <<w \div 4, w \div 4, w \div 2>>
           [] OTHER              -> <<w \div 3, w \div 3, w \div 3>>
    ELSE IF w >= 60 THEN <<w \div 2, w \div 2, w \div 2>>
    ELSE <<w, w, w>>

\* 3 columns for wide (>= 100), 2 for medium (>= 60), stacked for narrow:
\* col1_w, col2_w, col3_w
ColumnWidths(w, layout) ==
    IF w >= 100
    THEN LET c12 ==
               CASE layout = "cpu"      -> <<w \div 2, w \div 4>>
                 [] layout = "network"  -> <<w \div 4, w \div 4>>
                 [] layout = "docker"   -> <<IntTimesTenths(w, 3), IntTimesTenths(w, 2)>>
                 [] layout = "security" -> <<w \div 4, IntTimesTenths(w, 2)>>
                 [] OTHER               -> <<w \div 3, w \div 3>>
         IN  <<c12[1], c12[2], w - c12[1] - c12[2]>>
    ELSE IF w >= 60
    THEN LET c1 == IF layout = "cpu" THEN IntTimesTenths(w, 6)
                   ELSE IF layout \in {"network", "docker", "security"}
                        THEN IntTimesTenths(w, 4)
                        ELSE w \div 2
         IN  <<c1, w - c1, w - c1>>
    ELSE <<w, w, w>>

TopHeight(h, w) == IF w >= 60 THEN h - 2 ELSE Max(6, (h - 2) \div 3)

CpuHeight(h, w) == IF w >= 100 THEN TopHeight(h, w) ELSE TopHeight(h, w) \div 2

Box(name, top, left, height, width) ==
    [name |-> name, top |-> top, left |-> left, height |-> height, width |-> width]

\* draw_box: the inner region; a box lower than 2 or narrower than 4 is
\* not drawn and has no inner region.
Inner(b) ==
    IF b.height < 2 \/ b.width < 4
    THEN [top |-> b.top, left |-> b.left, height |-> 0, width |-> 0]
    ELSE [top |-> b.top + 1, left |-> b.left + 1,
          height |-> b.height - 2, width |-> b.width - 2]

CpuBox(h, w, layout) == Box("cpu", 1, 0, CpuHeight(h, w), ColumnWidths(w, layout)[1])

\* mem_box_h, disk_box_h, col2_row, col2_x
Column2(h, w, layout) ==
    LET available_h == h - 2
        top_h == TopHeight(h, w)
        cpu_h == CpuHeight(h, w)
    IN  IF w >= 100
        THEN [mem_h |-> top_h \div 2, disk_h |-> top_h - top_h \div 2,
              row |-> 1, x |-> ColumnWidths(w, layout)[1]]
        ELSE IF w >= 60
        THEN [mem_h |-> (available_h - cpu_h) \div 2,
              disk_h |-> available_h - cpu_h - (available_h - cpu_h) \div 2,
              row |-> 1 + cpu_h, x |-> 0]
        ELSE [mem_h |-> Max(4, available_h \div 4),
              disk_h |-> Max(4, available_h \div 4),
              row |-> 1 + cpu_h, x |-> 0]

\* The memory and disks boxes; neither is drawn unless col2_w > 0 and
\* mem_box_h > 2.
Column2Boxes(h, w, layout) ==
    LET c == Column2(h, w, layout)
        col2_w == ColumnWidths(w, layout)[2]
    IN  IF col2_w > 0 /\ c.mem_h > 2
        THEN <<Box("mem", c.row, c.x, c.mem_h, col2_w),
               Box("disks", c.row + c.mem_h, c.x, c.disk_h, col2_w)>>
        ELSE <<>>

\* net_box_h in the 3-column tier
NetHeight3(top_h, layout) ==
    IF layout = "network" THEN IntTimesTenths(top_h, 7)
    ELSE IF layout \in {"docker", "security"} THEN IntTimesTenths(top_h, 3)
    ELSE top_h \div 2

\* net_box_h, pwr_box_h, col3_row, col3_x, col3_actual_w
Column3(h, w, layout) ==
    LET available_h == h - 2
        top_h == TopHeight(h, w)
        cpu_h == CpuHeight(h, w)
        cw == ColumnWidths(w, layout)
        c2 == Column2(h, w, layout)
    IN  IF w >= 100
        THEN [net_h |-> NetHeight3(top_h, layout),
              pwr_h |-> top_h - NetHeight3(top_h, layout),
              row |-> 1, x |-> cw[1] + cw[2], width |-> cw[3]]
        ELSE IF w >= 60
        THEN [net_h |-> available_h \div 2,
              pwr_h |-> available_h - available_h \div 2,
              row |-> 1, x |-> cw[1], width |-> cw[2]]
        ELSE [net_h |-> Max(4, available_h \div 4),
              pwr_h |-> available_h - cpu_h - c2.mem_h - c2.disk_h
                        - Max(4, available_h \div 4),
              row |-> 1 + cpu_h + c2.mem_h + c2.disk_h, x |-> 0, width |-> w]

\* The network and power boxes; neither is drawn unless col3_actual_w > 0
\* and net_box_h > 0.
Column3Boxes(h, w, layout) ==
    LET c == Column3(h, w, layout)
    IN  IF c.width > 0 /\ c.net_h > 0
        THEN <<Box("net", c.row, c.x, c.net_h, c.width),
               Box("power", c.row + c.net_h, c.x, c.pwr_h, c.width)>>
        ELSE <<>>

\* Every box handed to draw_box in one pass of the loop, in drawing order.
LayoutBoxes(h, w, layout) ==
    <<CpuBox(h, w, layout)>> \o Column2Boxes(h, w, layout) \o Column3Boxes(h, w, layout)

\* The per-core bars are drawn, and _get_per_core_usage() is called, when
\* the cpu box has room: num_cores > 0 and line < ih - 4.
PerCoreBarsDrawn(h, w, layout, cores) ==
    LET in == Inner(CpuBox(h, w, layout))
        line == IF 1 < in.height THEN 2 ELSE 1
    IN  in.height > 0 /\ in.width > 0 /\ cores > 0 /\ line < in.height - 4

(***************************************************************************)
(* The power box: its lines, then the rows left for the docker,            *)
(* kubernetes and security panels.                                         *)
(***************************************************************************)
LineIf(line, cond) == IF cond THEN line + 1 ELSE line

\* `line` after the RAPL rows: the value row, then the graph if it fits.
EnergyLines(ph, energy) ==
    IF energy.available THEN LineIf(1, 1 < ph) ELSE 0

\* `line` after the battery section: spacing, level, bar, health, draw.
BatteryLines(ph, line, battery) ==
    IF battery.exists
    THEN LET spaced == LineIf(line, line > 0 /\ line < ph)
             level  == LineIf(spaced, spaced < ph)
             bar    == LineIf(level, level < ph)
             health == LineIf(bar, bar < ph /\ battery.health)
         IN  LineIf(health, health < ph /\ battery.power)
    ELSE line

\* `line` when the docker/k8s/security section is reached.
PowerLines(ph, data) ==
    LET line == BatteryLines(ph, EnergyLines(ph, data.energy), data.battery)
    IN  LineIf(line, ~data.energy.available /\ ~data.battery.exists)

Shares(d, k, s) == [docker_lines |-> d, k8s_lines |-> k, security_lines |-> s]

\* The n = 3 split ignoring the layout mode.
SplitThreeEven(remaining_lines, layout) ==
    Shares(remaining_lines \div 3, remaining_lines \div 3,
           remaining_lines - 2 * (remaining_lines \div 3))

SplitThree(remaining_lines, layout) ==
    IF layout = "security"
    THEN LET security_lines == IntTimesTenths(remaining_lines, 5)
             docker_lines == (remaining_lines - security_lines) \div 2
         IN  Shares(docker_lines, remaining_lines - security_lines - docker_lines,
                    security_lines)
    ELSE Shares(remaining_lines \div 3, remaining_lines \div 3,
                remaining_lines - 2 * (remaining_lines \div 3))

\* docker_lines, k8s_lines, security_lines
RowSplit(remaining_lines, has_docker, has_k8s, has_security, layout) ==
    LET active_features == Cardinality({f \in {<<"docker", has_docker>>,
                                               <<"k8s", has_k8s>>,
                                               <<"security", has_security>>} : f[2]})
        half == remaining_lines \div 2
    IN  CASE active_features = 0 -> Shares(0, 0, 0)
          [] active_features = 1 ->
               IF has_docker THEN Shares(remaining_lines, 0, 0)
               ELSE IF has_k8s THEN Shares(0, remaining_lines, 0)
               ELSE Shares(0, 0, remaining_lines)
          [] active_features = 2 ->
               IF has_docker /\ has_k8s THEN Shares(half, remaining_lines - half, 0)
               ELSE IF has_docker /\ has_security
                    THEN Shares(half, 0, remaining_lines - half)
               ELSE Shares(0, half, remaining_lines - half)
          [] OTHER -> SplitThree(remaining_lines, layout)

NoSplit == [computed |-> FALSE]

\* a panel that draws every item asked for, whatever rows it was granted
DrawPanelByDemand(line, ph, active, granted, demand, tests_line) ==
    IF active /\ granted > 0
    THEN [header |-> 1, items |-> demand, line |-> line + 1 + demand]
    ELSE [header |-> 0, items |-> 0, line |-> line]

\* One panel of the group, drawn from row `line` of a power box of ph rows:
\* its header row, then min(demand, granted - 1) item rows, the loop
\* breaking at the bottom of the box.  The docker panel does not test
\* `line < ph` before its header.
DrawPanel(line, ph, active, granted, demand, tests_line) ==
    IF active /\ granted > 0 /\ (~tests_line \/ line < ph)
    THEN LET to_show == Min(demand, granted - 1)
             items   == Min(Max(to_show, 0), Max(0, ph - (line + 1)))
         IN  [header |-> 1, items |-> items, line |-> line + 1 + items]
    ELSE [header |-> 0, items |-> 0, line |-> line]

\* The docker, kubernetes and security panels in turn, from row `line`.
DrawPanels(line, ph, lines, data) ==
    LET docker   == DrawPanel(line, ph, data.docker.available, lines.docker_lines,
                              data.docker.containers, FALSE)
        k8s      == DrawPanel(docker.line, ph, data.kubernetes.available,
                              lines.k8s_lines, data.kubernetes.pods, TRUE)
        security == DrawPanel(k8s.line, ph, data.security.available,
                              lines.security_lines, Len(data.security.top_ips),
                              TRUE)
    IN  [docker |-> docker, k8s |-> k8s, security |-> security]

\* The split computed while drawing the power box: only when the box is
\* drawn with an inner region, and a row is left below its own lines.
PowerPanel(h, w, layout, data) ==
    LET col3 == Column3Boxes(h, w, layout)
    IN  IF col3 = <<>> THEN NoSplit
        ELSE LET in == Inner(col3[2])
                 line == PowerLines(in.height, data)
             IN  IF in.height > 0 /\ in.width > 0 /\ line < in.height - 1
                 THEN [computed |-> TRUE,
                       remaining_lines |-> in.height - (line + 1),
                       has_docker |-> data.docker.available,
                       has_k8s |-> data.kubernetes.available,
                       has_security |-> data.security.available,
                       layout |-> layout,
                       lines |-> RowSplit(in.height - (line + 1),
                                          data.docker.available,
                                          data.kubernetes.available,
                                          data.security.available, layout),
                       ph |-> in.height,
                       first_line |-> line + 1,
                       panels |-> DrawPanels(line + 1, in.height,
                                             RowSplit(in.height - (line + 1),
                                                      data.docker.available,
                                                      data.kubernetes.available,
                                                      data.security.available,
                                                      layout),
                                             data)]
                 ELSE NoSplit

(***************************************************************************)
(* The counter samplers: get_cpu_info, _get_per_core_usage,                *)
(* get_memory_info, get_network_info and get_energy_info.  Each takes the  *)
(* stored sample and what the file read returned, and gives the result     *)
(* and the sample it stores.  A float is kept as the integer below it:     *)
(* usage in percent, network rates in KB/s, power in microwatts.           *)
(***************************************************************************)
\* self.last_cpu_times = None
NoSample == [set |-> FALSE]

\* a read that raised (the file is missing or its content does not parse)
Unreadable == [ok |-> FALSE]

\* the "cpu" line of /proc/stat: user, nice, system, idle, iowait, irq, softirq
StatLine(times) == [ok |-> TRUE, times |-> times]

\* idle = times[3] + times[4], the idle and the iowait ticks
IdleOf(times) == times[4] + times[5]

\* total = sum(times)
TotalOf(times) == SeqSum(times)

\* 100.0 * (1.0 - idle_delta / total_delta) if total_delta > 0 else 0.0
UsagePercent(idle_delta, total_delta) ==
    IF total_delta > 0
    THEN (100 * (total_delta - idle_delta)) \div total_delta
    ELSE 0

\* usage counted from boot when no sample is stored
CpuUsageSinceBoot(last, idle, total) ==
    IF last.set
    THEN UsagePercent(idle - last.idle, total - last.total)
    ELSE UsagePercent(idle, total)

\* `if self.last_cpu_times:` ... `else: cpu_usage = 0.0`
CpuUsage(last, idle, total) ==
    IF last.set
    THEN UsagePercent(idle - last.idle, total - last.total)
    ELSE 0

\* get_cpu_info, the try block: the usage and the sample stored
get_cpu_usage(last, reading) ==
    IF ~reading.ok
    THEN [usage |-> 0, last |-> last]
    ELSE LET idle  == IdleOf(reading.times)
             total == TotalOf(reading.times)
         IN  [usage |-> CpuUsage(last, idle, total),
              last  |-> [set |-> TRUE, idle |-> idle, total |-> total]]

\* the "cpuN" lines of /proc/stat
CoreLines(cores) == [ok |-> TRUE, cores |-> cores]

\* _get_per_core_usage: stored[i] is self._last_core_times['core_<i-1>'];
\* the attribute does not exist until the first read
get_per_core_usage(stored, reading, cpu_cores) ==
    IF ~reading.ok
    THEN [usages |-> [i \in 1..cpu_cores |-> 0], stored |-> stored]
    ELSE LET n == Len(reading.cores)
             idle(i)  == IdleOf(reading.cores[i])
             total(i) == TotalOf(reading.cores[i])
         IN  [usages |->
                [i \in 1..n |->
                   IF i <= Len(stored)
                   THEN UsagePercent(idle(i) - stored[i].idle,
                                     total(i) - stored[i].total)
                   ELSE 0],
              stored |->
                [i \in 1..Max(n, Len(stored)) |->
                   IF i <= n THEN [idle |-> idle(i), total |-> total(i)]
                   ELSE stored[i]]]

\* get_memory_info: MemTotal and MemAvailable in MB
MemInfo(total, available) == [ok |-> TRUE, total |-> total, available |-> available]

get_memory_info(reading) ==
    IF ~reading.ok
    THEN [percent |-> 0, pushes |-> <<>>]
    ELSE LET used == reading.total - reading.available
             percent == IF reading.total > 0
                        THEN (used * 100) \div reading.total
                        ELSE 0
         IN  [percent |-> percent, pushes |-> <<percent>>]

\* read_sys_file(path, int) or 0
Counter(value) == [ok |-> TRUE, value |-> value]

OrZero(c) == IF c.ok THEN c.value ELSE 0

\* max(0, (new - previous) / time_delta / 1024)
NetRate(new, prev, time_delta) ==
    Max(0, (new - prev) \div (time_delta * 1024))

\* get_network_info: the two rates, the sample stored, and whether the
\* rates were appended to rx_history and tx_history
get_network_info(last, t, iface, reading) ==
    IF ~iface
    THEN [rx_speed |-> 0, tx_speed |-> 0, last |-> last, pushed |-> FALSE]
    ELSE LET rx_bytes   == OrZero(reading.rx)
             tx_bytes   == OrZero(reading.tx)
             time_delta == t - last.time
             rated      == time_delta > 0 /\ last.rx > 0
         IN  [rx_speed |-> IF rated THEN NetRate(rx_bytes, last.rx, time_delta)
                           ELSE 0,
              tx_speed |-> IF rated THEN NetRate(tx_bytes, last.tx, time_delta)
                           ELSE 0,
              last     |-> [rx |-> rx_bytes, tx |-> tx_bytes, time |-> t],
              pushed   |-> TRUE]

NoEnergy == [source |-> "None", power_watts |-> 0, available |-> FALSE]

\* get_energy_info: RAPL first (the counter is in microjoules), then the
\* battery's power draw; `pushes` are the values appended to power_history
get_energy_info(last, t, rapl, reading, battery) ==
    LET read         == rapl /\ reading.ok
        time_delta   == t - last.time
        rated        == read /\ time_delta > 0 /\ last.energy > 0
        delta        == reading.value - last.energy
        energy_delta == IF delta < 0 THEN reading.value ELSE delta
        from_rapl    == IF rated
                        THEN [source |-> "rapl",
                              power_watts |-> energy_delta \div time_delta,
                              available |-> TRUE]
                        ELSE NoEnergy
        fallback     == ~from_rapl.available /\ battery.exists /\ battery.watts > 0
    IN  [energy |-> IF fallback
                    THEN [source |-> "battery", power_watts |-> battery.watts,
                          available |-> TRUE]
                    ELSE from_rapl,
         last   |-> IF read THEN [energy |-> reading.value, time |-> t] ELSE last,
         pushes |-> (IF read THEN <<from_rapl.power_watts>> ELSE <<>>)
                    \o (IF fallback THEN <<battery.watts>> ELSE <<>>)]

\* append each value of a sequence to a history buffer
RECURSIVE PushAll(_, _)
PushAll(h, values) ==
    IF values = <<>> THEN h ELSE PushAll(Push(h, Head(values)), Tail(values))

\* the last call of a sampler: how many calls came before it, the sample it
\* found, what it read, when, and what it returned
NoCall == [n |-> 0]

Called(before, prev, reading, at, result) ==
    [n |-> Min(before.n + 1, MaxSamples), prev |-> prev, reading |-> reading,
     at |-> at, result |-> result]

(***************************************************************************)
(* The hosts and what their commands answer.                               *)
(*   docker:  "absent" (no binary or socket), "down" (docker ps prints     *)
(*            nothing or an error), "up" (one running, one stopped)        *)
(*   kubectl: kubectl is installed and has a current context               *)
(*   battery: battery present, with health and power draw or without       *)
(*   energy:  a RAPL counter is readable                                   *)
(*   proxy:   an nginx access log exists and has lines                     *)
(*   window:  the size of the terminal                                     *)
(*   temp:    the CPU temperature in degrees                               *)
(*   mem:     MemTotal and MemAvailable of /proc/meminfo, in MB            *)
(*   iface:   a default network interface was detected                     *)
(*   pods:    the failed and the pending pods kubectl lists                *)
(***************************************************************************)
\* get_battery_info without /sys/class/power_supply/BAT0 (level and status
\* are what check_alerts' battery.get defaults to)
NoBattery ==
    [exists |-> FALSE, health |-> FALSE, power |-> FALSE, watts |-> 0,
     level |-> 100, status |-> "None"]

\* get_battery_info: a battery with or without a health reading and a
\* power draw (in microwatts), its level and its status
Battery(health, watts, level, status) ==
    [exists |-> TRUE, health |-> health, power |-> watts > 0, watts |-> watts,
     level |-> level, status |-> status]

Machines ==
    {[docker |-> "absent", kubectl |-> FALSE, cores |-> 4, energy |-> TRUE,
      battery |-> Battery(TRUE, 8000000, 15, "Discharging"),
      proxy |-> FALSE, window |-> [h |-> 24, w |-> 80],
      temp |-> 55, mem |-> MemInfo(8000, 4000), iface |-> TRUE,
      pods |-> [failed |-> 0, pending |-> 0, running |-> 0]],
     [docker |-> "up", kubectl |-> TRUE, cores |-> 8, energy |-> TRUE,
      battery |-> NoBattery,
      proxy |-> TRUE, window |-> [h |-> 40, w |-> 120],
      temp |-> 92, mem |-> MemInfo(16000, 2400), iface |-> TRUE,
      pods |-> [failed |-> 1, pending |-> 1, running |-> 1]],
     [docker |-> "down", kubectl |-> FALSE, cores |-> 1, energy |-> FALSE,
      battery |-> NoBattery,
      proxy |-> FALSE, window |-> [h |-> 10, w |-> 40],
      temp |-> 0, mem |-> Unreadable, iface |-> FALSE,
      pods |-> [failed |-> 0, pending |-> 0, running |-> 0]]}

\* What the counters of a host read at time t: the load comes in waves of
\* six seconds, around a quarter of the ticks busy, 2 KB received and 1 KB
\* sent each second, one joule used each second.
Wave(t) == ((t - StartTime) \div 2) % 3

HostStat(t) ==
    LET d == t - StartTime
    IN  StatLine(<<100 + 25 * d + 10 * Wave(t), 0, 0, 900 + 70 * d, 5 * d, 0, 0>>)

HostCores(t) == CoreLines([i \in 1..machine.cores |-> HostStat(t).times])

HostNet(t) ==
    LET d == t - StartTime
    IN  [rx |-> Counter(4096 + 2048 * d + 1024 * Wave(t)),
         tx |-> Counter(1024 + 1024 * d + 512 * Wave(t))]

HostRapl(t) == Counter(5000000 + 1000000 * (t - StartTime) + 500000 * Wave(t))

\* What varies from one update_data call to the next: what the logs yield,
\* whether `docker stats` answers within its timeout, whether curl gets
\* through.
Envs ==
    {[logs |-> LogsYield(1, <<[kind |-> "invalid_user", user |-> "bob",
                               ip |-> "10.0.0.5"]>>),
      stats_ok |-> TRUE, net_ok |-> TRUE, docker |-> machine.docker],
     [logs |-> [i \in 1..NumLogSources |-> SkippedSource(i)],
      stats_ok |-> FALSE, net_ok |-> FALSE, docker |-> machine.docker]}

\* The requests of the last minute in the proxy's access log: 6, 12 or 18
HostRequests(t) == 6 * (1 + (((t - StartTime) \div 6) % 3))

\* The log of a host under a steady trickle of failed logins: the tail holds
\* one, two or three failure lines in turn.
HostTail == <<[kind |-> "failed_password", user |-> "root", ip |-> "10.0.0.5"],
              [kind |-> "invalid_user", user |-> "bob", ip |-> "10.0.0.5"],
              [kind |-> "invalid_user", user |-> "bob", ip |-> "10.0.0.5"]>>

HostEnv(t) ==
    LET k == ((t - StartTime) \div 6) % 3
    IN  [logs |-> LogsYield(1, SubSeq(HostTail, 1, k + 1)),
         stats_ok |-> k # 1, net_ok |-> k # 2, docker |-> machine.docker]

(***************************************************************************)
(* The getters called by update_data.  Each takes the fields it reads and  *)
(* returns the fields it assigns together with its result.                 *)
(***************************************************************************)
Sources == {"snapshot", "security", "proxy", "processes", "docker_stats",
            "public_ip", "update_check"}

NotCalled == [called |-> FALSE]

Probe(elapsed, interval, ran) ==
    [called |-> TRUE, elapsed |-> elapsed, interval |-> interval, ran |-> ran]

\* get_public_ip: an address, or "N/A" when curl fails.
get_public_ip(env) == IF env.net_ok THEN "203.0.113.7" ELSE "N/A"

\* The lookup not deferred past the first call.
PublicIpDueOnFirst(is_first, t) ==
    "_last_ip_check" \notin attrs \/ t - last_ip_check > PublicIpInterval

\* update_data: "Defer public IP check"
PublicIpDue(is_first, t) ==
    ~is_first /\ ("_last_ip_check" \notin attrs \/ t - last_ip_check > PublicIpInterval)

\* update_data: "Check for updates once per day"
UpdateCheckDue(is_first, t) ==
    ~is_first /\ t - last_update_check > UpdateCheckInterval

\* check_for_updates: its own gate, then the remote version or False.
check_for_updates(t, env) ==
    IF t - last_update_check < UpdateCheckInterval
    THEN [last |-> last_update_check, available |-> update_available, ran |-> FALSE]
    ELSE [last |-> t, available |-> IF env.net_ok THEN "9.9.9" ELSE "False",
          ran |-> TRUE]

\* get_processes: the count is read on every call, `ps` only when due.
ProcessesDue(t) ==
    "_last_proc_check" \notin attrs \/ t - last_proc_check > ProcessInterval

get_processes(t) ==
    LET due == ProcessesDue(t)
        last == IF due THEN t ELSE last_proc_check
    IN  [last |-> last, ran |-> due,
         result |-> [total |-> 3, top_at |-> last]]

\* the result get_docker_info starts from
DockerUnavailable == [available |-> FALSE, running |-> 0, stopped |-> 0,
                      total |-> 0, containers |-> 0, stats_at |-> 0]

\* no get_docker_info call yet
NoDockerCall == [called |-> FALSE, flag |-> "None", docker |-> "absent",
                 commands |-> <<>>, result |-> DockerUnavailable]

\* `which docker` and the socket: "absent" is a host without one of them
WhichDocker(env) == IF env.docker = "absent" THEN "False" ELSE "True"

\* a flag that is probed again whenever it is not True
DockerProbedAgain(env) ==
    IF docker_available # "True" THEN WhichDocker(env) ELSE docker_available

\* self._docker_available after `if self._docker_available is None:`
DockerProbed(env) ==
    IF docker_available = "None" THEN WhichDocker(env) ELSE docker_available

\* get_docker_info(skip_stats); env.docker is the host's docker at the time
\* of the call: "absent", "down" (docker ps prints nothing, a permission
\* error or a connection error, or runs into its timeout) or "up"
get_docker_info(t, skip_stats, env) ==
    LET unavailable == DockerUnavailable
        probed == DockerProbed(env)
        which == IF docker_available = "None" THEN <<"which docker">> ELSE <<>>
        use_cached_stats == /\ "_docker_stats_cache" \in attrs
                            /\ t - docker_stats_time < DockerStatsInterval
        asked == ~skip_stats /\ ~use_cached_stats
        fetched == asked /\ env.stats_ok
    IN  IF probed = "False"
        THEN [available |-> probed, stats_time |-> docker_stats_time,
              cached |-> FALSE, probe |-> NotCalled, stats_failed |-> FALSE,
              commands |-> which,
              result |-> unavailable]
        ELSE IF env.docker # "up"
        THEN [available |-> "False", stats_time |-> docker_stats_time,
              cached |-> FALSE, probe |-> NotCalled, stats_failed |-> FALSE,
              commands |-> which \o <<"docker ps">>,
              result |-> unavailable]
        ELSE [available |-> probed,
              commands |-> which \o <<"docker ps">>
                          \o (IF asked THEN <<"docker stats">> ELSE <<>>),
              stats_time |-> IF fetched THEN t ELSE docker_stats_time,
              cached |-> fetched,
              probe |-> IF skip_stats THEN NotCalled
                        ELSE Probe(t - docker_stats_time, DockerStatsInterval, asked),
              stats_failed |-> asked /\ ~env.stats_ok,
              result |-> [available |-> TRUE, running |-> 1, stopped |-> 1,
                          total |-> 2, containers |-> Min(2, MaxListed),
                          stats_at |-> IF fetched THEN t
                                       ELSE IF use_cached_stats THEN docker_stats_time
                                       ELSE 0]]

\* get_kubernetes_info
get_kubernetes_info ==
    LET probed == IF kubectl_available = "None"
                  THEN (IF machine.kubectl THEN "True" ELSE "False")
                  ELSE kubectl_available
        available == probed = "True" /\ machine.kubectl
    IN  [kubectl |-> probed,
         result |-> [available |-> available,
                     pods_failed |-> IF available THEN machine.pods.failed ELSE 0,
                     pods_pending |-> IF available THEN machine.pods.pending ELSE 0,
                     pods |-> IF available
                              THEN Min(machine.pods.failed + machine.pods.pending
                                       + machine.pods.running, MaxListed)
                              ELSE 0]]

\* get_proxy_stats
get_proxy_stats(t) ==
    IF t - last_proxy_check < ProxyInterval
    THEN [last |-> last_proxy_check, stats |-> proxy_stats, ran |-> FALSE]
    ELSE [last |-> t, ran |-> TRUE,
          stats |-> IF machine.proxy
                    THEN [requests |-> HostRequests(t), source |-> "nginx"]
                    ELSE [requests |-> 0, source |-> "None"]]

\* self.proxy_history.append(stats.get('rps', 0) * 10), rps = requests / 60.0
ProxyHistoryValue(stats) == (stats.requests * 10) \div 60

\* The entries update_data stores on the first call instead of calling the
\* getters.
Placeholder ==
    [disk |-> <<>>,
     processes |-> [total |-> 0, top_at |-> 0],
     kubernetes |-> [available |-> FALSE, pods_failed |-> 0, pods_pending |-> 0,
                     pods |-> 0],
     proxy |-> [requests |-> 0, source |-> "None"],
     security |-> DefaultStats]

\* get_disk_usage: the mounted filesystems (the root is always there)
get_disk_usage == <<"/">>

\* The getters skipped on the first call.
Deferred == {"get_disk_usage", "get_processes", "get_kubernetes_info",
             "get_proxy_stats", "get_security_logs", "get_public_ip",
             "check_for_updates"}

\* The getters called on every call that passes the gate.
Eager == {"get_cpu_info", "get_memory_info", "get_battery_info",
          "get_network_info", "get_uptime", "get_energy_info", "get_docker_info"}

(***************************************************************************)
(* check_alerts: the alerts of one snapshot, as (name, value, type)        *)
(* triples in the order they are appended.  The value is kept as the       *)
(* number (and the address) its text is formatted from.                    *)
(***************************************************************************)
Alert(name, value, kind) == [name |-> name, value |-> value, kind |-> kind]

\* f"{x:.0f}%", f"{level}%", f"{stopped}"
Value(n) == [n |-> n, ip |-> ""]

\* alert['message']: 'Possible brute force from {ip} ({n} attempts)' or
\* '{n} failed logins in 1 min'
Message(a) == [n |-> a.count, ip |-> a.ip]

\* two independent tests instead of if / elif
RisingAlertsBoth(x, critical, high, critical_name, high_name) ==
    (IF x >= critical THEN <<Alert(critical_name, Value(x), "danger")>> ELSE <<>>)
    \o (IF x >= high THEN <<Alert(high_name, Value(x), "warning")>> ELSE <<>>)

\* if x >= critical: ... elif x >= high: ...
RisingAlerts(x, critical, high, critical_name, high_name) ==
    IF x >= critical THEN <<Alert(critical_name, Value(x), "danger")>>
    ELSE IF x >= high THEN <<Alert(high_name, Value(x), "warning")>>
    ELSE <<>>

\* `if battery.get('exists') and battery.get('status') != 'Charging':`
BatteryAlerts(battery) ==
    IF battery.exists /\ battery.status # "Charging"
    THEN IF battery.level <= battery_critical
         THEN <<Alert("BATTERY CRITICAL", Value(battery.level), "danger")>>
         ELSE IF battery.level <= battery_low
         THEN <<Alert("BATTERY LOW", Value(battery.level), "warning")>>
         ELSE <<>>
    ELSE <<>>

\* "Docker alerts - stopped containers"
DockerAlerts(docker_info) ==
    IF docker_info.available /\ docker_info.stopped > 0
    THEN <<Alert("DOCKER STOPPED", Value(docker_info.stopped), "warning")>>
    ELSE <<>>

\* the pending pods reported next to the failed ones
K8sAlertsBoth(k8s_info) ==
    IF k8s_info.available
    THEN (IF k8s_info.pods_failed > 0
          THEN <<Alert("K8S FAILED", Value(k8s_info.pods_failed), "danger")>>
          ELSE <<>>)
         \o (IF k8s_info.pods_pending > 0
             THEN <<Alert("K8S PENDING", Value(k8s_info.pods_pending), "warning")>>
             ELSE <<>>)
    ELSE <<>>

\* "Kubernetes alerts - failed/pending pods"
K8sAlerts(k8s_info) ==
    IF k8s_info.available
    THEN IF k8s_info.pods_failed > 0
         THEN <<Alert("K8S FAILED", Value(k8s_info.pods_failed), "danger")>>
         ELSE IF k8s_info.pods_pending > 0
         THEN <<Alert("K8S PENDING", Value(k8s_info.pods_pending), "warning")>>
         ELSE <<>>
    ELSE <<>>

\* alert['type'].upper().replace('_', ' ') on the types the detector emits
AlertName(type) ==
    CASE type = "brute_force"     -> "BRUTE FORCE"
      [] type = "high_error_rate" -> "HIGH ERROR RATE"

\* the detector's alerts cut to the first one
SecurityAlertsFirstOnly(security) ==
    IF security.available /\ security.alerts # <<>>
    THEN <<Alert(AlertName(security.alerts[1].type), Message(security.alerts[1]),
                 security.alerts[1].severity)>>
    ELSE <<>>

\* "Security alerts - brute force, high error rates"
SecurityAlerts(security) ==
    IF security.available
    THEN [i \in 1..Len(security.alerts) |->
            Alert(AlertName(security.alerts[i].type), Message(security.alerts[i]),
                  security.alerts[i].severity)]
    ELSE <<>>

check_alerts(data) ==
    RisingAlerts(data.cpu.usage, cpu_critical, cpu_high, "CPU CRITICAL", "CPU HIGH")
    \o RisingAlerts(data.cpu.temp, temp_critical, temp_high,
                    "TEMP CRITICAL", "TEMP HIGH")
    \o RisingAlerts(data.mem.percent, mem_critical, mem_high,
                    "MEM CRITICAL", "MEM HIGH")
    \o BatteryAlerts(data.battery)
    \o DockerAlerts(data.docker)
    \o K8sAlerts(data.kubernetes)
    \o SecurityAlerts(data.security)

(***************************************************************************)
(* The summary line of run_service_mode: the pieces of the f-strings in    *)
(* the order they are appended, each with the values formatted into it.    *)
(***************************************************************************)
Piece(text, args) == [text |-> text, args |-> args]

NoLine == <<>>

\* ", ".join([f"{a[0]}:{a[1]}" for a in alerts])
AlertStr(alerts) ==
    [i \in 1..Len(alerts) |-> [name |-> alerts[i].name, value |-> alerts[i].value]]

LogLine(timestamp, data, alerts) ==
    <<Piece("{timestamp} | ", <<timestamp>>),
      Piece("CPU: {usage:5.1f}% {temp:4.1f}C | ", <<data.cpu.usage, data.cpu.temp>>),
      Piece("MEM: {percent:5.1f}% | ", <<data.mem.percent>>)>>
    \o (IF data.energy.available
        THEN <<Piece("PWR: {power_watts:5.1f}W | ", <<data.energy.power_watts>>)>>
        ELSE <<>>)
    \o (IF alerts # <<>>
        THEN <<Piece("ALERTS: {alert_str}", AlertStr(alerts))>>
        ELSE <<Piece("OK", <<>>)>>)

(***************************************************************************)
(* State after construction (SentinelMonitor.__init__).                    *)
(***************************************************************************)
SecState ==
    [last |-> last_security_check, cache |-> security_cache,
     events |-> security_events, tracker |-> ip_failure_tracker,
     failed_history |-> failed_login_history,
     suspicious_history |-> suspicious_ip_history]

EventTimes(events) == {events[i].timestamp : i \in 1..Len(events)}

TrackerTimestamps(tracker) == UNION {Range(tracker[i].times) : i \in 1..Len(tracker)}

SecInit ==
    /\ last_security_check = 0
    /\ security_cache = <<>>
    /\ security_events = <<>>
    /\ ip_failure_tracker = <<>>
    /\ failed_login_history = ZeroHistory
    /\ suspicious_ip_history = ZeroHistory
    /\ pruned_ts = [events |-> {}, tracker |-> {}]
    /\ sec_call = [elapsed |-> 0, ran |-> FALSE, tails |-> <<>>, analysed |-> 0,
                   lines |-> <<>>, logs |-> <<>>]

\* the fields no frame has touched yet, refresh_rate apart
OtherFieldsInit ==
    /\ attrs = {}
    /\ last_proc_check = 0
    /\ last_ip_check = 0
    /\ last_proxy_check = 0
    /\ last_update_check = 0
    /\ docker_available = "None"
    /\ kubectl_available = "None"
    /\ docker_stats_time = 0
    /\ public_ip_cache = "Checking..."
    /\ update_available = "None"
    /\ proxy_stats = [requests |-> 0]
    /\ last_core_times = <<>>

\* the fields no frame has touched yet, with the default configuration
FieldsInit ==
    /\ refresh_rate = DefaultRefreshRate
    /\ OtherFieldsInit

MonInit ==
    /\ FieldsInit
    /\ last_update = 0
    /\ first_render = TRUE
    /\ cache = <<>>

HistInit ==
    /\ updates = 0
    /\ invoked = {}
    /\ failed = {}
    /\ probes = [s \in Sources |-> NotCalled]
    /\ docker_call = NoDockerCall
    /\ boxes = <<>>
    /\ split = NoSplit
    /\ render_reads = {}
    /\ core_call = NoCall
    /\ active_alerts = <<>>
    /\ log_line = NoLine

\* the samples and the history buffers at time t
SampInit(t) ==
    /\ last_cpu_times = NoSample
    /\ last_net_bytes = [rx |-> 0, tx |-> 0, time |-> t]
    /\ last_rapl = [energy |-> 0, time |-> t]
    /\ cpu_history = ZeroHistory
    /\ mem_history = ZeroHistory
    /\ rx_history = ZeroHistory
    /\ tx_history = ZeroHistory
    /\ power_history = ZeroHistory
    /\ proxy_history = ZeroHistory
    /\ cpu_call = NoCall
    /\ net_call = NoCall
    /\ energy_call = NoCall

\* a monitor that was just constructed
Constructed ==
    /\ now = StartTime
    /\ machine \in Machines
    /\ term = machine.window
    /\ layout_mode = "default"
    /\ keys = 0
    /\ MonInit
    /\ SecInit
    /\ HistInit
    /\ SampInit(StartTime)

Init ==
    /\ pc = "update"
    /\ Constructed

(***************************************************************************)
(* get_security_logs as a step.                                            *)
(***************************************************************************)
\* The assignments of one get_security_logs() call at time `now`.
SecurityCall(outs) ==
    LET st  == SecState
        ran == SecurityGateOpen(st, now)
    IN  \E new \in {get_security_logs(st, now, outs)} :
        /\ last_security_check' = new.last
        /\ security_cache' = new.cache
        /\ security_events' = new.events
        /\ ip_failure_tracker' = new.tracker
        /\ failed_login_history' = new.failed_history
        /\ suspicious_ip_history' = new.suspicious_history
        /\ pruned_ts' =
             IF ran
             THEN [events  |-> EventTimes(st.events) \ EventTimes(new.events),
                   tracker |-> TrackerTimestamps(st.tracker)
                               \ TrackerTimestamps(new.tracker)]
             ELSE pruned_ts
        /\ sec_call' = [elapsed  |-> now - st.last,
                        ran      |-> ran,
                        tails    |-> IF ran THEN TailsRun(outs, 1) ELSE <<>>,
                        analysed |-> IF ran THEN FirstYielding(outs, 1) ELSE 0,
                        lines    |-> IF ran /\ FirstYielding(outs, 1) > 0
                                     THEN outs[FirstYielding(outs, 1)].output
                                     ELSE <<>>,
                        logs     |-> IF ran THEN outs ELSE <<>>]

\* Time passes.
Tick ==
    /\ now < StartTime + MaxElapsed
    /\ now' = now + 1
    /\ UNCHANGED <<pc, machine, term, layout_mode, keys, monVars, secVars,
                   histVars, sampVars, drawVars>>

\* get_security_logs() is called with the logs yielding outs (which a call
\* stopped by the gate never looks at).
SecurityCheck ==
    /\ IF SecurityGateOpen(SecState, now)
       THEN \E outs \in SecEnvs : SecurityCall(outs)
       ELSE SecurityCall([i \in 1..NumLogSources |-> SkippedSource(i)])
    /\ UNCHANGED <<now, pc, machine, term, layout_mode, keys, monVars,
                   histVars, sampVars, drawVars>>

SecNext == Tick \/ SecurityCheck

\* the detector alone, on one host
SecInitOnHost == Init /\ machine.docker = "up"

SecSpec == SecInitOnHost /\ [][SecNext]_vars

(***************************************************************************)
(* The samplers as steps: what one call assigns.                           *)
(***************************************************************************)
\* get_cpu_info: the usage, the sample, and cpu_history.append(cpu_usage)
CpuInfo(reading) ==
    \E r \in {get_cpu_usage(last_cpu_times, reading)} :
        /\ last_cpu_times' = r.last
        /\ cpu_history' = Push(cpu_history, r.usage)
        /\ cpu_call' = Called(cpu_call, last_cpu_times, reading, now, r)

\* _get_per_core_usage
PerCoreUsage(reading) ==
    \E r \in {get_per_core_usage(last_core_times, reading, machine.cores)} :
        /\ last_core_times' = r.stored
        /\ core_call' = Called(core_call, last_core_times, reading, now, r)

\* get_memory_info: mem_history.append(percent) unless the read raised
MemoryInfo(reading) ==
    mem_history' = PushAll(mem_history, get_memory_info(reading).pushes)

\* get_network_info
NetworkInfo(reading) ==
    \E r \in {get_network_info(last_net_bytes, now, machine.iface, reading)} :
        /\ last_net_bytes' = r.last
        /\ rx_history' = IF r.pushed THEN Push(rx_history, r.rx_speed) ELSE rx_history
        /\ tx_history' = IF r.pushed THEN Push(tx_history, r.tx_speed) ELSE tx_history
        /\ net_call' = Called(net_call, last_net_bytes, reading, now, r)

\* get_energy_info
EnergyInfo(reading) ==
    \E r \in {get_energy_info(last_rapl, now, machine.energy, reading,
                                machine.battery)} :
        /\ last_rapl' = r.last
        /\ power_history' = PushAll(power_history, r.pushes)
        /\ energy_call' = Called(energy_call, last_rapl, reading, now, r)

(***************************************************************************)
(* update_data.                                                            *)
(***************************************************************************)
\* The call returns the stored snapshot: the gate is closed.
UpdateGated ==
    /\ probes' = [s \in Sources |->
                    IF s = "snapshot"
                    THEN Probe(now - last_update, refresh_rate, FALSE)
                    ELSE NotCalled]
    /\ invoked' = {}
    /\ failed' = {}
    /\ UNCHANGED <<updates, docker_call, monVars, secVars, sampVars>>

\* The call passes the gate and rebuilds the snapshot.
UpdatePass(env) ==
    LET t        == now
        is_first == first_render
        ip_due   == PublicIpDue(is_first, t)
        upd_due  == UpdateCheckDue(is_first, t)
        upd      == IF upd_due THEN check_for_updates(t, env)
                    ELSE [last |-> last_update_check,
                          available |-> update_available, ran |-> FALSE]
        procs    == get_processes(t)
        docker   == get_docker_info(t, is_first, env)
        k8s      == get_kubernetes_info
        proxy    == get_proxy_stats(t)
        sec_open == SecurityGateOpen(SecState, t)
    IN  /\ first_render' = FALSE
        /\ public_ip_cache' = IF is_first THEN "Checking..."
                              ELSE IF ip_due THEN get_public_ip(env)
                              ELSE public_ip_cache
        /\ last_ip_check' = IF ip_due THEN t ELSE last_ip_check
        /\ last_update_check' = upd.last
        /\ update_available' = upd.available
        /\ last_proc_check' = IF is_first THEN last_proc_check ELSE procs.last
        /\ docker_available' = docker.available
        /\ docker_call' = [called |-> TRUE, flag |-> docker_available,
                           docker |-> env.docker, commands |-> docker.commands,
                           result |-> docker.result]
        /\ docker_stats_time' = docker.stats_time
        /\ kubectl_available' = IF is_first THEN kubectl_available ELSE k8s.kubectl
        /\ last_proxy_check' = IF is_first THEN last_proxy_check ELSE proxy.last
        /\ proxy_stats' = IF is_first THEN proxy_stats ELSE proxy.stats
        /\ attrs' = attrs
                    \cup (IF ip_due THEN {"_last_ip_check"} ELSE {})
                    \cup (IF ~is_first THEN {"_last_proc_check"} ELSE {})
                    \cup (IF docker.cached THEN {"_docker_stats_cache"} ELSE {})
        /\ proxy_history' = IF ~is_first /\ proxy.ran
                            THEN Push(proxy_history, ProxyHistoryValue(proxy.stats))
                            ELSE proxy_history
        /\ IF is_first THEN UNCHANGED secVars ELSE SecurityCall(env.logs)
        /\ CpuInfo(HostStat(t))
        /\ MemoryInfo(machine.mem)
        /\ NetworkInfo(HostNet(t))
        /\ EnergyInfo(HostRapl(t))
        /\ cache' =
             [cpu        |-> [cores |-> machine.cores,
                             usage |-> cpu_call'.result.usage,
                             temp  |-> machine.temp],
              mem        |-> [percent |-> get_memory_info(machine.mem).percent],
              battery    |-> machine.battery,
              disk       |-> IF is_first THEN Placeholder.disk ELSE get_disk_usage,
              processes  |-> IF is_first THEN Placeholder.processes ELSE procs.result,
              energy     |-> energy_call'.result.energy,
              docker     |-> docker.result,
              kubernetes |-> IF is_first THEN Placeholder.kubernetes ELSE k8s.result,
              proxy      |-> IF is_first THEN Placeholder.proxy ELSE proxy.stats,
              security   |-> IF is_first THEN Placeholder.security
                             ELSE security_cache']
        /\ last_update' = t
        /\ refresh_rate' = refresh_rate
        /\ updates' = Min(updates + 1, MaxUpdates)
        /\ invoked' =
             Eager
             \cup (IF is_first THEN {}
                   ELSE {"get_disk_usage", "get_processes", "get_kubernetes_info",
                         "get_proxy_stats", "get_security_logs"})
             \cup (IF ip_due THEN {"get_public_ip"} ELSE {})
             \cup (IF upd_due THEN {"check_for_updates"} ELSE {})
        /\ failed' =
             (IF ip_due /\ ~env.net_ok THEN {"public_ip"} ELSE {})
             \cup (IF upd.ran /\ ~env.net_ok THEN {"update_check"} ELSE {})
             \cup (IF docker.stats_failed THEN {"docker_stats"} ELSE {})
             \cup (IF ~is_first /\ sec_open /\ FirstYielding(env.logs, 1) = 0
                   THEN {"security"} ELSE {})
             \cup (IF ~is_first /\ proxy.ran /\ ~machine.proxy
                   THEN {"proxy"} ELSE {})
        /\ probes' =
             [s \in Sources |->
                CASE s = "snapshot" -> Probe(t - last_update, refresh_rate, TRUE)
                  [] s = "docker_stats" -> docker.probe
                  [] is_first -> NotCalled
                  [] s = "security" ->
                       Probe(t - last_security_check, SecurityInterval, sec_open)
                  [] s = "proxy" ->
                       Probe(t - last_proxy_check, ProxyInterval, proxy.ran)
                  [] s = "processes" ->
                       Probe(t - last_proc_check, ProcessInterval, procs.ran)
                  [] s = "public_ip" ->
                       Probe(t - last_ip_check, PublicIpInterval, ip_due)
                  [] OTHER ->
                       Probe(t - last_update_check, UpdateCheckInterval, upd.ran)]

update_data ==
    IF now - last_update < refresh_rate
    THEN UpdateGated
    ELSE \E env \in Envs : UpdatePass(env)

(***************************************************************************)
(* The draw loop: read the window size and the snapshot, draw the frame,   *)
(* then wait up to 500 ms for a key.                                       *)
(***************************************************************************)
BeginFrame ==
    /\ pc = "update"
    /\ term' = machine.window
    /\ update_data
    /\ pc' = "render"
    /\ UNCHANGED <<now, machine, layout_mode, keys, drawVars>>

\* The layout, the boxes and their content.
Render ==
    /\ pc = "render"
    /\ boxes' = LayoutBoxes(term.h, term.w, layout_mode)
    /\ split' = PowerPanel(term.h, term.w, layout_mode, cache)
    /\ IF PerCoreBarsDrawn(term.h, term.w, layout_mode, cache.cpu.cores)
       THEN /\ render_reads' = {"/proc/stat"}
            /\ PerCoreUsage(HostCores(now))
       ELSE /\ render_reads' = {}
            /\ UNCHANGED <<last_core_times, core_call>>
    /\ active_alerts' = check_alerts(cache)
    /\ pc' = "input"
    /\ UNCHANGED <<now, machine, term, layout_mode, keys, monVars, secVars,
                   histVars, sampVars, log_line>>

\* Time passes while getch() waits.
Wait ==
    /\ pc = "input"
    /\ now < StartTime + MaxLoopTime
    /\ Tick

NextFrame == pc' = "update"

\* a key that changes the monitor's fields is pressed
KeyPressed ==
    /\ keys < MaxKeys
    /\ keys' = keys + 1

\* 'q' or 'Q'
KeyQuit ==
    /\ pc = "input"
    /\ pc' = "stopped"
    /\ UNCHANGED <<now, machine, term, layout_mode, keys, monVars, secVars,
                   histVars, sampVars, drawVars>>

\* a refresh key that leaves the timestamp of the last update alone
ForcedLastUpdateKept == last_update

\* 'r' or 'R' assigns self.last_update = 0
ForcedLastUpdate == 0

\* 'r' or 'R'
KeyRefresh ==
    /\ pc = "input"
    /\ KeyPressed
    /\ last_update' = ForcedLastUpdate
    /\ first_render' = FALSE
    /\ NextFrame
    /\ UNCHANGED <<now, machine, term, layout_mode, refresh_rate, cache, attrs,
                   last_proc_check, last_ip_check, last_proxy_check,
                   last_update_check, docker_available, kubectl_available,
                   docker_stats_time, public_ip_cache, update_available,
                   proxy_stats, secVars, histVars, sampVars, drawVars>>

\* 'i' or 'I'
KeyPublicIp ==
    /\ pc = "input"
    /\ KeyPressed
    /\ last_ip_check' = 0
    /\ attrs' = attrs \cup {"_last_ip_check"}
    /\ NextFrame
    /\ UNCHANGED <<now, machine, term, layout_mode, refresh_rate, last_update,
                   first_render, cache, last_proc_check, last_proxy_check,
                   last_update_check, docker_available, kubectl_available,
                   docker_stats_time, public_ip_cache, update_available,
                   proxy_stats, secVars, histVars, sampVars, drawVars>>

IndexOf(seq, x) == CHOOSE i \in 1..Len(seq) : seq[i] = x

\* 'l' or 'L'
KeyLayout ==
    /\ pc = "input"
    /\ KeyPressed
    /\ layout_mode' =
         LET current_idx == IF layout_mode \in Range(LAYOUT_MODES)
                            THEN IndexOf(LAYOUT_MODES, layout_mode) - 1
                            ELSE 0
         IN  LAYOUT_MODES[((current_idx + 1) % Len(LAYOUT_MODES)) + 1]
    /\ NextFrame
    /\ UNCHANGED <<now, machine, term, monVars, secVars, histVars, sampVars, drawVars>>

\* '+' or '='
KeyFaster ==
    /\ pc = "input"
    /\ KeyPressed
    /\ refresh_rate' = Max(MinRefreshRate, refresh_rate - 1)
    /\ NextFrame
    /\ UNCHANGED <<now, machine, term, layout_mode, last_update, first_render,
                   cache, attrs, last_proc_check, last_ip_check,
                   last_proxy_check, last_update_check, docker_available,
                   kubectl_available, docker_stats_time, public_ip_cache,
                   update_available, proxy_stats, secVars, histVars, sampVars, drawVars>>

\* '-' or '_'
KeySlower ==
    /\ pc = "input"
    /\ KeyPressed
    /\ refresh_rate' = Min(MaxRefreshRate, refresh_rate + 1)
    /\ NextFrame
    /\ UNCHANGED <<now, machine, term, layout_mode, last_update, first_render,
                   cache, attrs, last_proc_check, last_ip_check,
                   last_proxy_check, last_update_check, docker_available,
                   kubectl_available, docker_stats_time, public_ip_cache,
                   update_available, proxy_stats, secVars, histVars, sampVars, drawVars>>

\* no key within the timeout, or a key without an effect on the monitor's
\* data ('h', 't', any other)
KeyOther ==
    /\ pc = "input"
    /\ NextFrame
    /\ UNCHANGED <<now, machine, term, layout_mode, keys, monVars, secVars,
                   histVars, sampVars, drawVars>>

Next ==
    \/ BeginFrame
    \/ Render
    \/ Wait
    \/ KeyQuit
    \/ KeyRefresh
    \/ KeyPublicIp
    \/ KeyLayout
    \/ KeyFaster
    \/ KeySlower
    \/ KeyOther

Spec == Init /\ [][Next]_vars

(***************************************************************************)
(* update_data on a host whose docker comes and goes: at each call the     *)
(* binary and socket are missing, or the daemon does not answer, or it     *)
(* does.                                                                   *)
(***************************************************************************)
DockerStates == {"absent", "down", "up"}

DockerEnvs == {[env EXCEPT !.docker = d] : env \in Envs, d \in DockerStates}

DockerUpdate ==
    /\ IF now - last_update < refresh_rate
       THEN UpdateGated
       ELSE \E env \in DockerEnvs : UpdatePass(env)
    /\ UNCHANGED <<now, pc, machine, term, layout_mode, keys, drawVars>>

DockerNext == DockerUpdate \/ Tick

DockerInit == Init /\ machine.docker = "up"

DockerSpec == DockerInit /\ [][DockerNext]_vars

(***************************************************************************)
(* The draw loop started with any refresh_rate the configuration file can  *)
(* give: load_config copies the user's value without checking it.          *)
(***************************************************************************)
ConfigRefreshRates ==
    {MinRefreshRate, DefaultRefreshRate, MaxRefreshRate, MaxConfigRate}

ConfiguredInit ==
    /\ pc = "update"
    /\ now = StartTime
    /\ machine \in {m \in Machines : m.docker = "up"}
    /\ term = machine.window
    /\ layout_mode = "default"
    /\ keys = 0
    /\ refresh_rate \in ConfigRefreshRates
    /\ OtherFieldsInit
    /\ last_update = 0
    /\ first_render = TRUE
    /\ cache = <<>>
    /\ SecInit
    /\ HistInit
    /\ SampInit(StartTime)

\* the draw loop, followed for MaxConfigTime seconds
ConfiguredNext == Next /\ now' <= StartTime + MaxConfigTime

ConfiguredSpec == ConfiguredInit /\ [][ConfiguredNext]_vars

(***************************************************************************)
(* One frame over any window size, layout mode and snapshot.               *)
(***************************************************************************)
Widths == {40, 59, 60, 61, 80, 99, 100, 101, 120}

Heights == 2..MaxHeight

PowerCases ==
    {[energy |-> TRUE,  battery |-> NoBattery],
     [energy |-> FALSE, battery |-> NoBattery],
     [energy |-> TRUE,  battery |-> Battery(TRUE, 8000000, 60, "Discharging")],
     [energy |-> FALSE, battery |-> Battery(FALSE, 0, 60, "Charging")]}

\* A snapshot with the given panels available.
Snapshot(has_docker, has_k8s, has_security, power) ==
    [cpu        |-> [cores |-> 4, usage |-> 0, temp |-> 0],
     mem        |-> [percent |-> 0],
     battery    |-> power.battery,
     disk       |-> get_disk_usage,
     processes  |-> [total |-> 3, top_at |-> StartTime],
     energy     |-> IF power.energy
                    THEN [source |-> "rapl", power_watts |-> 0, available |-> TRUE]
                    ELSE NoEnergy,
     docker     |-> [available |-> has_docker, running |-> 0, stopped |-> 0,
                     total |-> 0, containers |-> 0, stats_at |-> 0],
     kubernetes |-> [available |-> has_k8s, pods_failed |-> 0, pods_pending |-> 0,
                     pods |-> 0],
     proxy      |-> Placeholder.proxy,
     security   |-> [DefaultStats EXCEPT !.available = has_security]]

LayoutInit ==
    /\ now = StartTime
    /\ pc = "render"
    /\ machine \in {m \in Machines : m.docker = "up"}
    /\ term \in [h : Heights, w : Widths]
    /\ layout_mode \in Range(LAYOUT_MODES)
    /\ keys = 0
    /\ FieldsInit
    /\ last_update = StartTime
    /\ first_render = FALSE
    /\ cache \in {Snapshot(d, k, s, p) : d \in BOOLEAN, k \in BOOLEAN,
                                         s \in BOOLEAN, p \in PowerCases}
    /\ SecInit
    /\ HistInit
    /\ SampInit(StartTime)

LayoutNext == Render

LayoutSpec == LayoutInit /\ [][LayoutNext]_vars

(***************************************************************************)
(* One frame drawn over snapshots whose panels have something to list.     *)
(***************************************************************************)
\* what a panel has to list: nothing, one item, a full list
Demands == {0, 1, MaxListed}

PanelHeights == {MaxHeight \div 2, MaxHeight - 8, MaxHeight}

PanelWidths == {80, 100, 120}

\* A snapshot whose docker, kubernetes and security results list
\* `containers`, `pods` and `ips` items.
PanelSnapshot(has_docker, has_k8s, has_security, containers, pods, ips) ==
    [Snapshot(has_docker, has_k8s, has_security,
              [energy |-> TRUE, battery |-> NoBattery])
       EXCEPT !.docker.containers = containers,
              !.docker.total = containers,
              !.docker.running = containers,
              !.kubernetes.pods = pods,
              !.security.top_ips = [i \in 1..ips |->
                                      [key |-> ScanAddresses[i], count |-> 1]]]

PanelInit ==
    /\ now = StartTime
    /\ pc = "render"
    /\ machine \in {m \in Machines : m.docker = "up" /\ m.energy}
    /\ term \in [h : PanelHeights, w : PanelWidths]
    /\ layout_mode \in Range(LAYOUT_MODES)
    /\ keys = 0
    /\ FieldsInit
    /\ last_update = StartTime
    /\ first_render = FALSE
    /\ cache \in {PanelSnapshot(d, k, s, c, p, i) :
                     d \in BOOLEAN, k \in BOOLEAN, s \in BOOLEAN,
                     c \in Demands, p \in Demands, i \in Demands}
    /\ SecInit
    /\ HistInit
    /\ SampInit(StartTime)

PanelNext == Render

PanelSpec == PanelInit /\ [][PanelNext]_vars

(***************************************************************************)
(* The two loops with calls that raise: the try statement of the           *)
(* while-loop of draw, and run_service_mode.                               *)
(***************************************************************************)
\* what a call made while drawing can raise: curses.error (a write outside
\* the window), or any other Exception
Raised == {"curses.error", "Exception"}

\* the draw loop is inside its while-loop
InLoop == {"update", "render", "input"}

\* the except clauses of the draw loop: curses.error is passed over; any
\* other Exception is appended to /tmp/sentinel.log, and an open() that
\* fails (the file belongs to another user) raises out of draw
Handle(exc, log_writable) ==
    IF exc = "curses.error" THEN "update"
    ELSE IF log_writable THEN "update"
    ELSE "crashed"

\* A call of the frame raises: the rest of the try body, getch() included,
\* is skipped.
RenderRaises ==
    /\ pc = "render"
    /\ \E exc \in Raised, log_writable \in BOOLEAN :
         pc' = Handle(exc, log_writable)
    /\ UNCHANGED <<now, machine, term, layout_mode, keys, monVars, secVars,
                   histVars, sampVars, drawVars>>

\* what one iteration of the service loop meets: nothing; an OSError other
\* than PermissionError from open(log_file) (no space left, no such
\* directory); a closed stdout, where print raises BrokenPipeError in the
\* try body and again in the except clause
ServiceOutcomes == {"ok", "log_oserror", "stdout_closed"}

\* where the service loop is after an iteration with that outcome: the
\* except clause prints the error and sleeps, unless its print raises
AfterIteration(outcome) ==
    IF outcome = "stdout_closed" THEN "crashed" ELSE "service"

\* One iteration of `while running`: update_data, check_alerts, print, the
\* log line, time.sleep(interval).
ServiceIteration ==
    /\ pc = "service"
    /\ update_data
    /\ active_alerts' = check_alerts(cache')
    /\ log_line' = LogLine(now, cache', active_alerts')
    /\ \E outcome \in ServiceOutcomes :
         /\ pc' = AfterIteration(outcome)
         /\ IF outcome = "stdout_closed"
            THEN now' = now
            ELSE /\ now + DefaultRefreshRate <= StartTime + MaxElapsed
                 /\ now' = now + DefaultRefreshRate
    /\ UNCHANGED <<machine, term, layout_mode, keys, boxes, split, render_reads,
                   last_core_times, core_call>>

\* SIGTERM or SIGINT: handle_signal clears `running`, the loop test fails.
Signal ==
    /\ pc = "service"
    /\ pc' = "service_stopped"
    /\ UNCHANGED <<now, machine, term, layout_mode, keys, monVars, secVars,
                   histVars, sampVars, drawVars>>

\* main starts the draw loop, or the service loop with --service
LoopInit ==
    /\ pc \in {"update", "service"}
    /\ Constructed

LoopNext == Next \/ RenderRaises \/ ServiceIteration \/ Signal

LoopSpec == LoopInit /\ [][LoopNext]_vars

(***************************************************************************)
(* The CPU samplers alone, over any two readings of /proc/stat.            *)
(***************************************************************************)
\* (idle, total) = (100, 1000), (150, 1200), (200, 1200) with the idle
\* ticks split between the idle and the iowait column
StatTimes == {<<900, 0, 0, 90, 10, 0, 0>>,
              <<1050, 0, 0, 130, 20, 0, 0>>,
              <<1000, 0, 0, 100, 100, 0, 0>>}

StatReadings == {StatLine(times) : times \in StatTimes} \cup {Unreadable}

\* one or two "cpuN" lines
CoreReadings ==
    {CoreLines(<<a>>) : a \in StatTimes}
    \cup {CoreLines(<<a, b>>) : a \in StatTimes, b \in StatTimes}
    \cup {Unreadable}

\* get_cpu_info is called
CpuRead ==
    /\ cpu_call.n < MaxSamples
    /\ \E reading \in StatReadings : CpuInfo(reading)
    /\ UNCHANGED <<now, pc, machine, term, layout_mode, keys, monVars, secVars,
                   histVars, drawVars, last_net_bytes, last_rapl, mem_history,
                   rx_history, tx_history, power_history, proxy_history,
                   net_call, energy_call>>

\* _get_per_core_usage is called
CoreRead ==
    /\ core_call.n < MaxSamples
    /\ \E reading \in CoreReadings : PerCoreUsage(reading)
    /\ UNCHANGED <<now, pc, machine, term, layout_mode, keys, monVars, secVars,
                   histVars, sampVars, boxes, split, render_reads, active_alerts,
                   log_line>>

CpuNext == CpuRead \/ CoreRead

CpuSpec == SecInitOnHost /\ [][CpuNext]_vars

(***************************************************************************)
(* The byte and energy counters alone: the two samplers are called one     *)
(* after the other, as update_data calls them, over any readings.          *)
(***************************************************************************)
\* rx_bytes and tx_bytes of the default interface; a file that cannot be
\* read counts as 0
NetReadings ==
    {[rx |-> rx, tx |-> tx] :
       rx \in {Unreadable, Counter(2048), Counter(6144)},
       tx \in {Counter(1024), Counter(5120)}}

\* energy_uj of the RAPL zone
RaplReadings == {Unreadable, Counter(2000000), Counter(5000000)}

RatePass ==
    /\ net_call.n < MaxSamples
    /\ \E reading \in NetReadings : NetworkInfo(reading)
    /\ \E reading \in RaplReadings : EnergyInfo(reading)
    /\ UNCHANGED <<now, pc, machine, term, layout_mode, keys, monVars, secVars,
                   histVars, drawVars, last_cpu_times, cpu_history, mem_history,
                   proxy_history, cpu_call>>

RateTick ==
    /\ now < StartTime + MaxRateTime
    /\ Tick

RateNext == RatePass \/ RateTick

\* the hosts with a RAPL counter
RateInit == Init /\ machine.energy

RateSpec == RateInit /\ [][RateNext]_vars

(***************************************************************************)
(* A long service run on each host: one update_data every interval, long   *)
(* enough for every history buffer to turn over.                           *)
(***************************************************************************)
LongIteration ==
    /\ pc = "service"
    /\ now + DefaultRefreshRate <= StartTime + MaxRun
    /\ IF now - last_update < refresh_rate
       THEN UpdateGated
       ELSE UpdatePass(HostEnv(now))
    /\ active_alerts' = check_alerts(cache')
    /\ log_line' = LogLine(now, cache', active_alerts')
    /\ now' = now + DefaultRefreshRate
    /\ UNCHANGED <<pc, machine, term, layout_mode, keys, boxes, split,
                   render_reads, last_core_times, core_call>>

HistNext == LongIteration

LongInit ==
    /\ pc = "service"
    /\ Constructed

HistSpec == LongInit /\ [][HistNext]_vars

(***************************************************************************)
(* check_alerts alone, over snapshots around every threshold.              *)
(***************************************************************************)
\* what the detector returns for a tail with no, one, or two addresses over
\* the brute-force threshold
AlertTails ==
    LET a == [kind |-> "failed_password", user |-> "root", ip |-> "10.0.0.5"]
        b == [kind |-> "invalid_user", user |-> "bob", ip |-> "10.0.0.6"]
    IN  {<<a>>, <<a, a>>, <<a, b, a, b>>, <<b, a, b, a, a>>}

DetectorResults ==
    {DefaultStats}
    \cup {AnalyseSource(<<>>, <<>>, tail, StartTime).stats : tail \in AlertTails}

BatteryCases ==
    {NoBattery}
    \cup {Battery(TRUE, 8000000, level, status) :
            level \in {battery_critical - 1, battery_critical,
                       battery_critical + 1, battery_low, battery_low + 1},
            status \in {"Charging", "Discharging"}}

DockerCases ==
    {[available |-> a, running |-> 1, stopped |-> s, total |-> 1 + s,
      containers |-> 1 + s,
      stats_at |-> 0] : a \in BOOLEAN, s \in {0, 2}}

K8sCases ==
    {[available |-> a, pods_failed |-> f, pods_pending |-> p, pods |-> f + p] :
       a \in BOOLEAN, f \in {0, 1}, p \in {0, 2}}

AlertSnapshots ==
    {[cpu        |-> [cores |-> 4, usage |-> usage, temp |-> temp],
      mem        |-> [percent |-> percent],
      battery    |-> battery,
      disk       |-> get_disk_usage,
      processes  |-> [total |-> 3, top_at |-> StartTime],
      energy     |-> NoEnergy,
      docker     |-> docker,
      kubernetes |-> k8s,
      proxy      |-> Placeholder.proxy,
      security   |-> security] :
        usage    \in {cpu_high - 1, cpu_high, cpu_critical},
        temp     \in {temp_high - 1, temp_high, temp_critical - 1, temp_critical},
        percent  \in {mem_high, mem_critical - 1, mem_critical},
        battery  \in BatteryCases,
        docker   \in {d \in DockerCases : d.available \/ d.stopped > 0},
        k8s      \in {k \in K8sCases : k.available \/ k.pods_failed > 0},
        security \in DetectorResults}

\* `alerts = self.check_alerts(data)` on the snapshot of this tick
AlertCheck ==
    /\ pc = "alerts"
    /\ active_alerts' = check_alerts(cache)
    /\ pc' = "alerted"
    /\ UNCHANGED <<now, machine, term, layout_mode, keys, monVars, secVars,
                   histVars, sampVars, boxes, split, render_reads,
                   last_core_times, core_call, log_line>>

AlertNext == AlertCheck

AlertInit ==
    /\ now = StartTime
    /\ pc = "alerts"
    /\ machine \in {m \in Machines : m.docker = "up"}
    /\ term = machine.window
    /\ layout_mode = "default"
    /\ keys = 0
    /\ FieldsInit
    /\ last_update = StartTime
    /\ first_render = FALSE
    /\ cache \in AlertSnapshots
    /\ SecInit
    /\ HistInit
    /\ SampInit(StartTime)

AlertSpec == AlertInit /\ [][AlertNext]_vars

(***************************************************************************)
(* The summary line of the service loop alone, over the snapshots of       *)
(* AlertSpec with and without an energy reading.                           *)
(***************************************************************************)
EnergyCases == {NoEnergy, [source |-> "rapl", power_watts |-> 12, available |-> TRUE]}

\* memory also below its first threshold, so that some snapshots raise no
\* alert
LineSnapshots ==
    {[data EXCEPT !.energy = energy,
                  !.mem.percent = IF calm THEN mem_high - 1 ELSE @] :
        data \in AlertSnapshots, energy \in EnergyCases, calm \in BOOLEAN}

\* check_alerts, then the log line built from the snapshot and the alerts
ServiceLine ==
    /\ pc = "alerts"
    /\ active_alerts' = check_alerts(cache)
    /\ log_line' = LogLine(now, cache, active_alerts')
    /\ pc' = "printed"
    /\ UNCHANGED <<now, machine, term, layout_mode, keys, monVars, secVars,
                   histVars, sampVars, boxes, split, render_reads,
                   last_core_times, core_call>>

LineNext == ServiceLine

LineInit ==
    /\ now = StartTime
    /\ pc = "alerts"
    /\ machine \in {m \in Machines : m.docker = "up"}
    /\ term = machine.window
    /\ layout_mode = "default"
    /\ keys = 0
    /\ FieldsInit
    /\ last_update = StartTime
    /\ first_render = FALSE
    /\ cache \in LineSnapshots
    /\ SecInit
    /\ HistInit
    /\ SampInit(StartTime)

LineSpec == LineInit /\ [][LineNext]_vars

(***************************************************************************)
(* One pass of the detector over a burst: up to BurstLines lines of one    *)
(* kind from one address, read from the first log with nothing recorded    *)
(* before.                                                                 *)
(***************************************************************************)
BurstKinds == {"failed_password_invalid_user", "failed_then_invalid",
               "invalid_user", "failed_password", "connection_closed",
               "accepted", "other"}

BurstTails ==
    {[i \in 1..n |-> [kind |-> kind, user |-> "bob", ip |-> "10.0.0.5"]] :
        n \in 1..BurstLines, kind \in BurstKinds}

BurstPass ==
    /\ ~sec_call.ran
    /\ \E tail \in BurstTails : SecurityCall(LogsYield(1, tail))
    /\ UNCHANGED <<now, pc, machine, term, layout_mode, keys, monVars,
                   histVars, sampVars, drawVars>>

BurstNext == BurstPass

BurstSpec == SecInitOnHost /\ [][BurstNext]_vars

(***************************************************************************)
(* One pass of the detector over a scan from many hosts: one failure line  *)
(* from each of n hosts, then two more lines.                              *)
(***************************************************************************)
ScanLine(kind, j) == [kind |-> kind, user |-> ScanUsers[j], ip |-> ScanAddresses[j]]

ScanTails ==
    {[i \in 1..n |-> ScanLine("invalid_user", i)]
       \o <<ScanLine(kind, a), ScanLine("failed_password", b)>> :
         n \in (TopN - 1)..Len(ScanAddresses),
         a \in {1, 2, TopN, TopN + 1}, b \in {2, TopN, Len(ScanAddresses) - 1},
         kind \in {"invalid_user", "accepted", "connection_closed"}}

ScanPass ==
    /\ ~sec_call.ran
    /\ \E tail \in ScanTails : SecurityCall(LogsYield(1, tail))
    /\ UNCHANGED <<now, pc, machine, term, layout_mode, keys, monVars,
                   histVars, sampVars, drawVars>>

ScanNext == ScanPass

ScanSpec == SecInitOnHost /\ [][ScanNext]_vars

(***************************************************************************)
(* Properties of the threat detector (specification SecSpec).               *)
(***************************************************************************)
PassRan == last_security_check > 0

BruteAlertsFor(ip) ==
    SelectSeq(security_cache.alerts,
              LAMBDA a : a.type = "brute_force" /\ a.ip = ip)

\* The alerts for ip are what its window calls for: exactly one alert, with
\* the length of the window, when the window holds at least
\* failed_login_threshold timestamps, and none otherwise.
BruteForceMatchesWindow(ip) ==
    LET n == Len(TrackerTimes(ip_failure_tracker, ip))
    IN  IF n >= failed_login_threshold
        THEN /\ Len(BruteAlertsFor(ip)) = 1
             /\ BruteAlertsFor(ip)[1].count = n
        ELSE BruteAlertsFor(ip) = <<>>

TrackedAt(t) ==
    SeqSum([i \in 1..Len(ip_failure_tracker) |->
              Count(ip_failure_tracker[i].times, LAMBDA x : x = t)])

\* The failed_login events the last pass appended.
FailedEventsAt(t) ==
    Count(security_events,
          LAMBDA e : e.timestamp = t /\ e.type = "failed_login")

\* C4 (as claimed): every line counted as a failed login in a pass has
\* incremented the user counters, appended one failed_login SecurityEvent
\* and appended the pass time to the tracker of its IP.
C4_FailedLoginThreeEffects ==
    PassRan =>
        /\ SeqSum([i \in 1..Len(security_cache.top_users) |->
                     security_cache.top_users[i].count])
             = security_cache.failed_logins
        /\ TrackedAt(last_security_check) = security_cache.failed_logins
        /\ FailedEventsAt(last_security_check) = security_cache.failed_logins

HighErrorAlerts ==
    SelectSeq(security_cache.alerts, LAMBDA a : a.type = "high_error_rate")

\* Failed logins recorded with a timestamp inside the error-rate window of
\* the last pass (every failed login is recorded in the tracker).
RecentFailedLogins ==
    SeqSum([i \in 1..Len(ip_failure_tracker) |->
              Count(ip_failure_tracker[i].times,
                    LAMBDA x : x > last_security_check - error_rate_window)])

\* C5 (as claimed): a pass emits exactly one high_error_rate alert when the
\* failed-login SecurityEvents inside the error-rate window number at least
\* error_rate_threshold and none otherwise, and every failed login recorded
\* in that window is among those events.
C5_HighErrorRate ==
    PassRan =>
        /\ Len(HighErrorAlerts)
             = (IF RecentErrors(security_events, last_security_check)
                     >= error_rate_threshold THEN 1 ELSE 0)
        /\ RecentErrors(security_events, last_security_check) = RecentFailedLogins

\* C6: after a pass at time `last`, every retained SecurityEvent and every
\* retained tracker timestamp is newer than last - failed_login_window,
\* nothing newer than that cutoff was dropped from either structure, and no
\* IP maps to an empty list.
C6_PruneBoundary ==
    PassRan =>
        LET cutoff == last_security_check - failed_login_window
        IN  /\ \A t \in EventTimes(security_events) : t > cutoff
            /\ \A i \in 1..Len(ip_failure_tracker) :
                 /\ ip_failure_tracker[i].times # <<>>
                 /\ \A t \in Range(ip_failure_tracker[i].times) : t > cutoff
            /\ \A t \in pruned_ts.events \cup pruned_ts.tracker : t <= cutoff

\* C6 witness: the last pass dropped an event and a tracker timestamp that
\* were exactly failed_login_window old.
C6_Witness ==
    /\ PassRan
    /\ (last_security_check - failed_login_window) \in pruned_ts.events
    /\ (last_security_check - failed_login_window) \in pruned_ts.tracker

(***************************************************************************)
(* Properties of one frame (specification LayoutSpec).                      *)
(***************************************************************************)
FrameDrawn == pc = "input"

\* Two boxes share a cell of the screen.
Overlap(a, b) ==
    /\ a.height > 0 /\ a.width > 0 /\ b.height > 0 /\ b.width > 0
    /\ a.top < b.top + b.height /\ b.top < a.top + a.height
    /\ a.left < b.left + b.width /\ b.left < a.left + a.width

\* The box lies between the header row 0 and the footer row h - 1, and
\* inside columns 0 .. w - 1.
InsideArea(b) ==
    /\ b.top >= 1 /\ b.top + b.height <= term.h - 1
    /\ b.left >= 0 /\ b.left + b.width <= term.w

\* C7: for every terminal size and layout mode, the boxes of one draw pass
\* (cpu, mem, disks, net, power) have height >= 0 and width >= 0, lie
\* inside the area between header and footer and inside columns 0..w-1,
\* and no two of them overlap.
C7_BoxesPartitionArea ==
    /\ \A i \in 1..Len(boxes) :
         /\ boxes[i].height >= 0
         /\ boxes[i].width >= 0
         /\ InsideArea(boxes[i])
    /\ \A i, j \in 1..Len(boxes) : i < j => ~Overlap(boxes[i], boxes[j])

\* The active panels in the order docker, kubernetes, security.
ActivePanels ==
    SelectSeq(<<[panel |-> "docker_lines", on |-> split.has_docker],
                [panel |-> "k8s_lines", on |-> split.has_k8s],
                [panel |-> "security_lines", on |-> split.has_security]>>,
              LAMBDA p : p.on)

\* C8: the R remaining rows are split by R, the active panels and the mode
\* alone: n = 0 gives (0,0,0); n = 1 gives R to the active panel; n = 2
\* gives floor(R/2) to the first active panel and the rest to the second;
\* n = 3 gives floor(R/3), floor(R/3), remainder, but in security mode
\* security gets floor(R/2) and docker and kubernetes split the rest by the
\* n = 2 rule.  Every share is >= 0, an inactive panel gets none, and the
\* shares sum to at most R.
C8_RowSplit ==
    split.computed =>
      LET R == split.remaining_lines
          s == split.lines
          active == ActivePanels
          n == Len(active)
      IN  /\ s.docker_lines >= 0 /\ s.k8s_lines >= 0 /\ s.security_lines >= 0
          /\ s.docker_lines + s.k8s_lines + s.security_lines <= R
          /\ \A p \in {"docker_lines", "k8s_lines", "security_lines"} :
               (\A i \in 1..n : active[i].panel # p) => s[p] = 0
          /\ n = 1 => s[active[1].panel] = R
          /\ n = 2 => /\ s[active[1].panel] = R \div 2
                      /\ s[active[2].panel] = R - R \div 2
          /\ (n = 3 /\ split.layout # "security") =>
               /\ s.docker_lines = R \div 3
               /\ s.k8s_lines = R \div 3
               /\ s.security_lines = R - 2 * (R \div 3)
          /\ (n = 3 /\ split.layout = "security") =>
               /\ s.security_lines = R \div 2
               /\ s.docker_lines = (R - R \div 2) \div 2
               /\ s.k8s_lines = (R - R \div 2) - (R - R \div 2) \div 2

\* Ten rows are split among three active panels in security mode.
C8_Witness ==
    /\ FrameDrawn
    /\ split.computed
    /\ split.remaining_lines = 10
    /\ Len(ActivePanels) = 3
    /\ split.layout = "security"
    /\ split.lines = Shares(2, 3, 5)

(***************************************************************************)
(* Properties of the update pipeline and the draw loop (specification      *)
(* Spec).                                                                  *)
(***************************************************************************)
\* C1: every rate-limited source (snapshot, threat detector, proxy stats,
\* process list, docker stats, public IP, update check) recomputes on a
\* call made when the time since its last fetch is >= its interval, and
\* returns the stored value without invoking the source when it is less.
C1_RateLimits ==
    \A s \in Sources :
      probes[s].called => (probes[s].ran <=> probes[s].elapsed >= probes[s].interval)

\* The timestamp that rate-limits a source.
LastAttempt(s) ==
    CASE s = "security"     -> last_security_check
      [] s = "proxy"        -> last_proxy_check
      [] s = "update_check" -> last_update_check
      [] s = "public_ip"    -> last_ip_check
      [] s = "docker_stats" -> docker_stats_time

\* C2: when the read of a rate-limited source fails (threat detector, proxy
\* stats, update check, public IP, docker stats), its last-attempt
\* timestamp is advanced all the same, so that it is not invoked again
\* before its interval has elapsed.
C2_FailureAdvancesTimestamp ==
    pc = "render" => \A s \in failed : LastAttempt(s) = now

\* C9: within one iteration every source read happens inside update_data;
\* drawing the frame reads no source and overwrites no counter sample.
C9_RenderReadsNothing ==
    [][Render => (render_reads' = {} /\ last_core_times' = last_core_times)]_vars

\* update_data has just returned from a call that passed the gate
Rebuilt == pc = "render" /\ probes["snapshot"].called /\ probes["snapshot"].ran

\* C10: the first update_data call stores the placeholders for disk,
\* processes, kubernetes, proxy and security and invokes none of the
\* deferred getters; the next call that passes the gate invokes each of
\* them and stores what it returns.
C10_FirstUpdateDefers ==
    /\ updates = 1 =>
         /\ cache.disk = Placeholder.disk
         /\ cache.processes = Placeholder.processes
         /\ cache.kubernetes = Placeholder.kubernetes
         /\ cache.proxy = Placeholder.proxy
         /\ cache.security = Placeholder.security
         /\ invoked \cap Deferred = {}
    /\ (updates = 2 /\ Rebuilt) =>
         /\ Deferred \subseteq invoked
         /\ cache.disk = get_disk_usage
         /\ cache.processes = [total |-> 3, top_at |-> now]
         /\ last_proc_check = now
         /\ cache.kubernetes = get_kubernetes_info.result
         /\ cache.proxy = proxy_stats /\ last_proxy_check = now
         /\ cache.security = security_cache /\ last_security_check = now
         /\ last_ip_check = now /\ public_ip_cache # "Checking..."
         /\ last_update_check = now /\ update_available # "None"

\* The second update has run on the host with docker and kubectl, and the
\* threat detector analysed a log.
C10_Witness ==
    /\ updates = 2
    /\ Rebuilt
    /\ machine.kubectl
    /\ cache.security.available
    /\ cache.proxy.source = "nginx"

(***************************************************************************)
(* The keys, the failures and the loop (specification Spec).               *)
(***************************************************************************)
\* what a step leaves of the record of source reads
NoSourceRead ==
    /\ invoked' = invoked
    /\ failed' = failed
    /\ probes' = probes
    /\ updates' = updates
    /\ render_reads' = render_reads
    /\ cache' = cache

\* C11: after the 'r' key is handled the next update_data call rebuilds
\* the snapshot whatever time has elapsed since the last update; only that
\* call is forced, since it stores the time of the call and the call after
\* it passes the gate only when refresh_rate has elapsed; handling the key
\* reads no source.
C11_RefreshForcesOneUpdate ==
    [][/\ KeyRefresh => /\ NoSourceRead
                        /\ pc' = "update"
                        /\ now' - last_update' >= refresh_rate'
       /\ BeginFrame => /\ probes'["snapshot"].called
                        /\ probes'["snapshot"].ran <=> now - last_update >= refresh_rate
                        /\ probes'["snapshot"].ran => last_update' = now
                        /\ ~probes'["snapshot"].ran => /\ last_update' = last_update
                                                       /\ cache' = cache]_vars

\* 'r' was pressed in the second in which the snapshot was built, and the
\* call that followed in the same second built it again.
C11_Witness ==
    /\ Rebuilt
    /\ keys = 1
    /\ updates = 2
    /\ now = StartTime
    /\ last_update = now

\* C12: no failure of a read, a parse, a command or a rendering call ends
\* a loop: the draw loop is left only when 'q' is read, the service loop
\* only when a signal handler cleared the running flag, and after a
\* failure that was caught the loop goes on with the next iteration
\* (specification LoopSpec).
C12_OnlyQuitEndsLoop ==
    [][/\ (pc \in InLoop /\ pc' \notin InLoop) => KeyQuit
       /\ (pc = "service" /\ pc' # "service") => Signal
       /\ RenderRaises => pc' = "update"]_vars

(***************************************************************************)
(* CPU usage (specification CpuSpec).                                      *)
(***************************************************************************)
\* u is 100 * (1 - idle_delta / total_delta) cut to a whole percent
IsUsage(u, idle_delta, total_delta) ==
    /\ u * total_delta <= 100 * (total_delta - idle_delta)
    /\ 100 * (total_delta - idle_delta) < (u + 1) * total_delta

\* the idle (idle plus iowait) and the total ticks of a line
Ticks(times) ==
    [idle  |-> times[4] + times[5],
     total |-> times[1] + times[2] + times[3] + times[4] + times[5]
               + times[6] + times[7]]

\* what a sampler reports for one key: nothing stored, 0; else the usage
\* over the deltas, and 0 when the total did not advance
ReportsFor(u, has_prev, prev, cur) ==
    /\ ~has_prev => u = 0
    /\ (has_prev /\ cur.total - prev.total > 0) =>
          IsUsage(u, cur.idle - prev.idle, cur.total - prev.total)
    /\ (has_prev /\ cur.total - prev.total <= 0) => u = 0
    /\ (has_prev /\ prev.idle = 100 /\ prev.total = 1000
        /\ cur.idle = 150 /\ cur.total = 1200) => u = 75

\* C13: aggregate and per core, the first sample of a key reports 0;
\* afterwards the usage is 100 * (1 - idle_delta / total_delta) with idle
\* the idle plus the iowait ticks, and 0 when total_delta <= 0; the samples
\* (100, 1000) then (150, 1200) report 75; a successful read overwrites the
\* stored sample of its key and of no other key.
C13_CpuUsage ==
    [][/\ (CpuRead /\ cpu_call'.reading.ok) =>
            LET cur == Ticks(cpu_call'.reading.times)
            IN  /\ ReportsFor(cpu_call'.result.usage, last_cpu_times.set,
                              last_cpu_times, cur)
                /\ last_cpu_times' = [set |-> TRUE, idle |-> cur.idle,
                                      total |-> cur.total]
                /\ last_core_times' = last_core_times
       /\ (CoreRead /\ core_call'.reading.ok) =>
            LET lines == core_call'.reading.cores
                usages == core_call'.result.usages
            IN  /\ Len(usages) = Len(lines)
                /\ \A i \in 1..Len(lines) :
                     /\ ReportsFor(usages[i], i <= Len(last_core_times),
                                   IF i <= Len(last_core_times)
                                   THEN last_core_times[i] ELSE Ticks(lines[i]),
                                   Ticks(lines[i]))
                     /\ last_core_times'[i] = Ticks(lines[i])
                /\ \A i \in 1..Len(last_core_times) :
                     i > Len(lines) => last_core_times'[i] = last_core_times[i]
                /\ last_cpu_times' = last_cpu_times]_vars

\* The second aggregate sample (150, 1200) after (100, 1000) reported 75,
\* and a second per-core read found one of its two keys stored.
C13_Witness ==
    /\ cpu_call.n = 2
    /\ cpu_call.prev = [set |-> TRUE, idle |-> 100, total |-> 1000]
    /\ cpu_call.result.usage = 75
    /\ core_call.n = 2
    /\ Len(core_call.prev) = 1
    /\ core_call.reading.ok
    /\ Len(core_call.reading.cores) = 2
    /\ core_call.result.usages[2] = 0

(***************************************************************************)
(* Counter rates (specification RateSpec).                                 *)
(***************************************************************************)
\* (new - previous) / elapsed, a negative result clamped to 0; `unit` is
\* 1024 for the byte counters (KB/s) and 1 for the energy counter
ClampedRate(new, previous, elapsed, unit) ==
    Max(0, (new - previous) \div (elapsed * unit))

\* C14: for the receive and transmit byte counters and the RAPL counter,
\* with a previous sample the rate is (new - previous) / elapsed clamped at
\* 0, the new reading replaces the stored sample, and without a previous
\* sample the rate is 0; the transmit rate depends on the transmit counter
\* only and the receive rate on the receive counter only.
C14_CounterRates ==
    /\ net_call.n = 1 =>
         /\ net_call.result.rx_speed = 0
         /\ net_call.result.tx_speed = 0
    /\ (net_call.n >= 2 /\ net_call.at > net_call.prev.time) =>
         /\ net_call.result.rx_speed =
              ClampedRate(OrZero(net_call.reading.rx), net_call.prev.rx,
                          net_call.at - net_call.prev.time, 1024)
         /\ net_call.result.tx_speed =
              ClampedRate(OrZero(net_call.reading.tx), net_call.prev.tx,
                          net_call.at - net_call.prev.time, 1024)
    /\ net_call.n >= 1 =>
         last_net_bytes = [rx |-> OrZero(net_call.reading.rx),
                           tx |-> OrZero(net_call.reading.tx),
                           time |-> net_call.at]
    /\ (energy_call.n >= 1 /\ energy_call.reading.ok
        /\ energy_call.result.energy.source # "battery") =>
         /\ last_rapl = [energy |-> energy_call.reading.value,
                         time |-> energy_call.at]
         /\ energy_call.prev.energy = 0 =>
              energy_call.result.energy.power_watts = 0
         /\ (energy_call.prev.energy > 0
             /\ energy_call.at > energy_call.prev.time) =>
              energy_call.result.energy.power_watts =
                ClampedRate(energy_call.reading.value, energy_call.prev.energy,
                            energy_call.at - energy_call.prev.time, 1)

(***************************************************************************)
(* History buffers (specification HistSpec).                               *)
(***************************************************************************)
Histories ==
    [cpu        |-> cpu_history,
     mem        |-> mem_history,
     rx         |-> rx_history,
     tx         |-> tx_history,
     power      |-> power_history,
     proxy      |-> proxy_history,
     failed     |-> failed_login_history,
     suspicious |-> suspicious_ip_history]

HistoryNames == DOMAIN Histories

\* the last n elements of a sequence
LastN(s, n) == SubSeq(s, Len(s) - n + 1, Len(s))

\* after := before with the values pushed at the end, in the order given,
\* and as many of the oldest elements dropped
PushedOnto(before, values, after) ==
    after = LastN(before \o values, HistLen)

\* the values one update_data call appends to each buffer
Appended ==
    LET ran == updates' # updates \/ last_update' # last_update
    IN  [cpu        |-> IF ran THEN <<cpu_call'.result.usage>> ELSE <<>>,
         mem        |-> IF ran THEN get_memory_info(machine.mem).pushes ELSE <<>>,
         rx         |-> IF ran /\ net_call'.result.pushed
                        THEN <<net_call'.result.rx_speed>> ELSE <<>>,
         tx         |-> IF ran /\ net_call'.result.pushed
                        THEN <<net_call'.result.tx_speed>> ELSE <<>>,
         power      |-> IF ran THEN energy_call'.result.pushes ELSE <<>>,
         proxy      |-> IF last_proxy_check' # last_proxy_check
                        THEN <<ProxyHistoryValue(proxy_stats')>> ELSE <<>>,
         failed     |-> IF last_security_check' # last_security_check
                        THEN <<security_cache'.failed_logins>> ELSE <<>>,
         suspicious |-> IF last_security_check' # last_security_check
                        THEN <<Count(security_cache'.top_ips,
                                     LAMBDA e : e.count >= SuspiciousCount)>>
                        ELSE <<>>]

HistoriesPrimed ==
    [cpu        |-> cpu_history',
     mem        |-> mem_history',
     rx         |-> rx_history',
     tx         |-> tx_history',
     power      |-> power_history',
     proxy      |-> proxy_history',
     failed     |-> failed_login_history',
     suspicious |-> suspicious_ip_history']

\* C15: every history buffer holds exactly 100 values in every state, starts
\* as 100 zeros, and a push appends the new value at the end and drops the
\* oldest one, so the retained values stay in the order they were pushed.
C15_HistoryBuffers ==
    /\ \A name \in HistoryNames :
         HistoryContent(Histories[name]) = [i \in 1..HistLen |-> 0]
    /\ [][\A name \in HistoryNames :
            /\ Len(HistoryContent(HistoriesPrimed[name])) = HistLen
            /\ PushedOnto(HistoryContent(Histories[name]), Appended[name],
                          HistoryContent(HistoriesPrimed[name]))]_vars

\* the buffer has turned over: none of the initial zeros is left and it holds
\* values that differ
TurnedOver(h) ==
    /\ h.zeros = 0
    /\ Len(h.vals) = HistLen
    /\ \E i, j \in 1..HistLen : h.vals[i] # h.vals[j]

\* the detector, the slowest to push, has made more than 100 passes, so every
\* buffer has dropped values that were pushed
C15_Witness ==
    /\ last_security_check > StartTime + (SecurityInterval + 1) * HistLen
    /\ \A name \in HistoryNames \ {"mem"} : TurnedOver(Histories[name])
    /\ mem_history.zeros = 0

(***************************************************************************)
(* check_alerts (specification AlertSpec).                                 *)
(***************************************************************************)
\* how many of the active alerts carry the name
AlertsNamed(name) ==
    Cardinality({i \in 1..Len(active_alerts) : active_alerts[i].name = name})

OneIf(condition) == IF condition THEN 1 ELSE 0

\* the alerts of a metric that alarms when it rises
RisingVerdict(x, critical, high, critical_name, high_name) ==
    /\ AlertsNamed(critical_name) = OneIf(x >= critical)
    /\ AlertsNamed(high_name) = OneIf(x >= high /\ x < critical)
    /\ AlertsNamed(critical_name) + AlertsNamed(high_name) <= 1

BatteryEvaluated == cache.battery.exists /\ cache.battery.status # "Charging"

\* C16: check_alerts emits at most one alert for each of CPU, temperature,
\* memory and battery: CRITICAL when the critical threshold is crossed,
\* otherwise HIGH (LOW) when only that threshold is crossed, otherwise none;
\* the battery is looked at only when it exists and is not charging, and its
\* test is level <= threshold where the others use value >= threshold.
C16_OneAlertPerMetric ==
    pc = "alerted" =>
      /\ RisingVerdict(cache.cpu.usage, cpu_critical, cpu_high,
                       "CPU CRITICAL", "CPU HIGH")
      /\ RisingVerdict(cache.cpu.temp, temp_critical, temp_high,
                       "TEMP CRITICAL", "TEMP HIGH")
      /\ RisingVerdict(cache.mem.percent, mem_critical, mem_high,
                       "MEM CRITICAL", "MEM HIGH")
      /\ AlertsNamed("BATTERY CRITICAL") =
           OneIf(BatteryEvaluated /\ cache.battery.level <= battery_critical)
      /\ AlertsNamed("BATTERY LOW") =
           OneIf(BatteryEvaluated /\ cache.battery.level > battery_critical
                 /\ cache.battery.level <= battery_low)

\* both CPU thresholds crossed and a discharging battery at the critical
\* level: one CPU alert, one battery alert
C16_Witness ==
    /\ pc = "alerted"
    /\ cache.cpu.usage >= cpu_critical
    /\ AlertsNamed("CPU CRITICAL") = 1
    /\ AlertsNamed("CPU HIGH") = 0
    /\ cache.cpu.temp = temp_high
    /\ AlertsNamed("TEMP HIGH") = 1
    /\ cache.battery.exists
    /\ cache.battery.status = "Discharging"
    /\ cache.battery.level = battery_critical
    /\ AlertsNamed("BATTERY CRITICAL") = 1
    /\ AlertsNamed("BATTERY LOW") = 0

\* C17: one DOCKER STOPPED alert when docker is available and containers are
\* stopped, none otherwise; with kubernetes available, K8S FAILED when pods
\* failed, else K8S PENDING when pods are pending, never both, and neither
\* when kubernetes is unavailable.
C17_ContainerAlerts ==
    pc = "alerted" =>
      /\ AlertsNamed("DOCKER STOPPED") =
           OneIf(cache.docker.available /\ cache.docker.stopped > 0)
      /\ AlertsNamed("K8S FAILED") =
           OneIf(cache.kubernetes.available /\ cache.kubernetes.pods_failed > 0)
      /\ AlertsNamed("K8S PENDING") =
           OneIf(cache.kubernetes.available /\ cache.kubernetes.pods_failed = 0
                 /\ cache.kubernetes.pods_pending > 0)
      /\ AlertsNamed("K8S FAILED") + AlertsNamed("K8S PENDING") <= 1

\* failed and pending pods at once, and stopped containers
C17_Witness ==
    /\ pc = "alerted"
    /\ cache.kubernetes.available
    /\ cache.kubernetes.pods_failed > 0
    /\ cache.kubernetes.pods_pending > 0
    /\ AlertsNamed("K8S FAILED") = 1
    /\ AlertsNamed("K8S PENDING") = 0
    /\ cache.docker.available
    /\ cache.docker.stopped > 0
    /\ AlertsNamed("DOCKER STOPPED") = 1

\* the names check_alerts gives to metric and container alerts
MetricAlertNames ==
    {"CPU CRITICAL", "CPU HIGH", "TEMP CRITICAL", "TEMP HIGH", "MEM CRITICAL",
     "MEM HIGH", "BATTERY CRITICAL", "BATTERY LOW", "DOCKER STOPPED",
     "K8S FAILED", "K8S PENDING"}

\* a detector alert as check_alerts reports it
Reported(alert) ==
    [name  |-> IF alert.type = "brute_force" THEN "BRUTE FORCE"
               ELSE "HIGH ERROR RATE",
     value |-> [n |-> alert.count, ip |-> alert.ip],
     kind  |-> alert.severity]

\* C18: every alert of the detector's result appears in the output of
\* check_alerts exactly once, after all metric and container alerts, in the
\* detector's order, its type in upper case with spaces for underscores, its
\* message and severity unchanged; none is dropped, and check_alerts changes
\* neither the snapshot nor the monitor's state.
C18_DetectorAlertsAppended ==
    /\ [](pc = "alerted" =>
           LET detected == cache.security.alerts
               own      == Len(active_alerts) - Len(detected)
           IN  /\ own >= 0
               /\ \A i \in 1..own : active_alerts[i].name \in MetricAlertNames
               /\ \A j \in 1..Len(detected) :
                    /\ active_alerts[own + j] = Reported(detected[j])
                    /\ active_alerts[own + j].name \notin MetricAlertNames)
    /\ [][AlertCheck => UNCHANGED <<monVars, secVars, sampVars>>]_vars

\* two addresses over the brute-force threshold and a high error rate, behind
\* a metric alert
C18_Witness ==
    /\ pc = "alerted"
    /\ Len(cache.security.alerts) = 3
    /\ cache.security.alerts[1].type = "brute_force"
    /\ cache.security.alerts[2].type = "brute_force"
    /\ cache.security.alerts[1].ip # cache.security.alerts[2].ip
    /\ cache.security.alerts[3].type = "high_error_rate"
    /\ Len(active_alerts) > 3
    /\ active_alerts[Len(active_alerts)].name = "HIGH ERROR RATE"

(***************************************************************************)
(* The classification of log lines (specifications SecSpec and BurstSpec). *)
(***************************************************************************)
\* the patterns in the order the loop body tries them
PatternOrder == <<"invalid_user", "failed_password", "connection_closed",
                  "accepted_key">>

\* the position in PatternOrder of the first pattern found in the line
\* (0: none)
FirstMatch(line) ==
    IF \E i \in 1..Len(PatternOrder) : Search(PatternOrder[i], line)
    THEN CHOOSE i \in 1..Len(PatternOrder) :
           /\ Search(PatternOrder[i], line)
           /\ \A j \in 1..(i - 1) : ~Search(PatternOrder[j], line)
    ELSE 0

\* the line is classified as a successful login
IsSuccessLine(line) == line.kind # "blank" /\ FirstMatch(line) = 4

WithoutSuccess(lines) == SelectSeq(lines, LAMBDA l : ~IsSuccessLine(l))

\* C19 (as claimed): a line classified as a successful login increments the
\* successful-login counter and nothing else: the failed-login counter, the
\* top-IP and top-user counts, the SecurityEvent list and the tracker of
\* failures per IP are what the pass gives without that line.
C19_SuccessCountsOnly ==
    [][(last_security_check' # last_security_check /\ sec_call'.analysed > 0) =>
         LET cutoff_time == now - failed_login_window
             rest == AnalyseSource(PruneEvents(security_events, cutoff_time),
                                   PruneTracker(ip_failure_tracker, cutoff_time),
                                   WithoutSuccess(sec_call'.lines), now)
         IN  /\ security_cache'.successful_logins
                  = Count(sec_call'.lines, IsSuccessLine)
             /\ security_cache'.failed_logins = rest.stats.failed_logins
             /\ security_cache'.top_ips = rest.stats.top_ips
             /\ security_cache'.top_users = rest.stats.top_users
             /\ security_events' = rest.events
             /\ ip_failure_tracker' = rest.tracker]_vars

\* how many lines of the pass went into the category of a pattern
CountedAs(pattern) ==
    CASE pattern = "invalid_user" ->
           DictGet(security_cache.error_types, "Invalid user attempt")
      [] pattern = "failed_password" ->
           DictGet(security_cache.error_types, "Failed password")
      [] pattern = "connection_closed" ->
           DictGet(security_cache.error_types, "Connection closed (invalid user)")
      [] pattern = "accepted_key" -> security_cache.successful_logins

BruteForceAlertsOfPass ==
    SelectSeq(security_cache.alerts, LAMBDA a : a.type = "brute_force")

CountsAddress(line) == line.kind # "blank" /\ FirstMatch(line) \in {1, 2, 4}

\* the lines whose category counts the user: failed logins
CountsUser(line) == line.kind # "blank" /\ FirstMatch(line) \in {1, 2}

\* how often the lines of the pass counted an address, and a user
SeenAddress(ip) ==
    Count(sec_call.lines, LAMBDA l : CountsAddress(l) /\ l.ip = ip)

SeenUser(user) ==
    Count(sec_call.lines, LAMBDA l : CountsUser(l) /\ l.user = user)

\* the line at which the pass first counted an address, and a user
FirstAddressLine(ip) ==
    CHOOSE i \in 1..Len(sec_call.lines) :
      /\ CountsAddress(sec_call.lines[i]) /\ sec_call.lines[i].ip = ip
      /\ \A j \in 1..(i - 1) :
           ~(CountsAddress(sec_call.lines[j]) /\ sec_call.lines[j].ip = ip)

FirstUserLine(user) ==
    CHOOSE i \in 1..Len(sec_call.lines) :
      /\ CountsUser(sec_call.lines[i]) /\ sec_call.lines[i].user = user
      /\ \A j \in 1..(i - 1) :
           ~(CountsUser(sec_call.lines[j]) /\ sec_call.lines[j].user = user)

\* `top` ranks the keys seen: at most 10 entries with distinct keys and their
\* counts, descending, ties in first-seen order, nothing omitted that counts
\* more than a retained key, and nothing omitted while there is room
Ranks(top, keys_seen, SeenKey(_), FirstLine(_)) ==
    LET retained == {top[i].key : i \in 1..Len(top)}
    IN  /\ Len(top) <= 10
        /\ Len(top) = Min(10, Cardinality(keys_seen))
        /\ retained \subseteq keys_seen
        /\ Cardinality(retained) = Len(top)
        /\ \A i \in 1..Len(top) : top[i].count = SeenKey(top[i].key)
        /\ \A i, j \in 1..Len(top) :
             i < j => \/ top[i].count > top[j].count
                      \/ /\ top[i].count = top[j].count
                         /\ FirstLine(top[i].key) < FirstLine(top[j].key)
        /\ \A k \in keys_seen \ retained :
             \A i \in 1..Len(top) : SeenKey(k) <= top[i].count

AddressesSeen == {ip \in Addresses : SeenAddress(ip) > 0}

UsersSeen == {u \in Range(ScanUsers) : SeenUser(u) > 0}

\* C21: top_ips and top_users of a pass hold at most 10 entries each, in
\* descending order of count, equal counts in the order the keys were first
\* seen in the pass, and every omitted key counts no more than the smallest
\* retained count.
C21_TopTenRanking ==
    (sec_call.ran /\ sec_call.analysed > 0) =>
      /\ Ranks(security_cache.top_ips, AddressesSeen, SeenAddress, FirstAddressLine)
      /\ Ranks(security_cache.top_users, UsersSeen, SeenUser, FirstUserLine)

\* twelve hosts seen, two of them twice: ten retained, the two counted twice
\* in front, a host counted once omitted
C21_Witness ==
    /\ sec_call.ran
    /\ Cardinality(AddressesSeen) = 12
    /\ Len(security_cache.top_ips) = 10
    /\ security_cache.top_ips[1].count = 2
    /\ security_cache.top_ips[2].count = 2
    /\ security_cache.top_ips[1].key = ScanAddresses[2]
    /\ security_cache.top_ips[3].count = 1
    /\ Len(security_cache.top_users) = 10
    /\ security_cache.top_users # [i \in 1..10 |->
                                     [key |-> ScanUsers[i], count |-> 1]]

\* C22: failed_ratio of a pass is failed / (failed + successful) and lies in
\* [0, 1]; it is 0 when failed = successful = 0 and 1 when successful = 0 and
\* failed > 0.
C22_FailedRatio ==
    sec_call.ran =>
      LET failures  == security_cache.failed_logins
          successes == security_cache.successful_logins
          ratio     == security_cache.failed_ratio
      IN  /\ ratio.den > 0
          /\ 0 <= ratio.num
          /\ ratio.num <= ratio.den
          /\ failures + successes > 0 =>
               ratio.num * (failures + successes) = failures * ratio.den
          /\ (failures = 0 /\ successes = 0) => ratio.num = 0
          /\ (successes = 0 /\ failures > 0) => ratio.num = ratio.den

\* one failed and one successful login in a pass: the ratio is one half
C22_Witness ==
    /\ sec_call.ran
    /\ security_cache.failed_logins = 1
    /\ security_cache.successful_logins = 1
    /\ security_cache.total_parsed = 2
    /\ security_cache.failed_ratio.num * 2 = security_cache.failed_ratio.den

(***************************************************************************)
(* Columns and panels of one frame (specification LayoutSpec).             *)
(***************************************************************************)
\* the columns of a frame: the left edges of its boxes
ColumnEdges == {boxes[i].left : i \in 1..Len(boxes)}

\* the columns the width calls for
ColumnsFor(w) == IF w >= 100 THEN 3 ELSE IF w >= 60 THEN 2 ELSE 1

\* the box drawn under a name (all five are drawn)
BoxNamed(name) == CHOOSE b \in Range(boxes) : b.name = name

AllBoxesDrawn == FrameDrawn /\ Len(boxes) = 5

\* C23: the column count depends on the width alone: w >= 100 gives three
\* columns, 60 <= w < 100 two, w < 60 one stacked column.  With three
\* columns the widths are non-negative and sum to w, cpu mode giving
\* floor(w/2), floor(w/4), rest and network mode floor(w/4), floor(w/4),
\* rest; with two columns the two widths are non-negative and sum to w.
C23_ColumnTiers ==
    /\ FrameDrawn => Cardinality(ColumnEdges) <= ColumnsFor(term.w)
    /\ AllBoxesDrawn =>
         LET col1_w == BoxNamed("cpu").width
             col2_w == BoxNamed("mem").width
             col3_w == BoxNamed("net").width
         IN  /\ Cardinality(ColumnEdges) = ColumnsFor(term.w)
             /\ col1_w >= 0 /\ col2_w >= 0 /\ col3_w >= 0
             /\ term.w >= 100 =>
                  /\ col1_w + col2_w + col3_w = term.w
                  /\ ColumnEdges = {0, col1_w, col1_w + col2_w}
                  /\ layout_mode = "cpu" =>
                       /\ col1_w = term.w \div 2
                       /\ col2_w = term.w \div 4
                  /\ layout_mode = "network" =>
                       /\ col1_w = term.w \div 4
                       /\ col2_w = term.w \div 4
             /\ (term.w >= 60 /\ term.w < 100) =>
                  /\ col1_w + col3_w = term.w
                  /\ ColumnEdges = {0, col1_w}
             /\ term.w < 60 =>
                  /\ col1_w = term.w
                  /\ ColumnEdges = {0}

\* a width of 101 in cpu mode: 50, 25 and the remaining 26
C23_Witness ==
    /\ AllBoxesDrawn
    /\ term.w = 101
    /\ layout_mode = "cpu"
    /\ BoxNamed("cpu").width = 50
    /\ BoxNamed("mem").width = 25
    /\ BoxNamed("net").width = 26
    /\ BoxNamed("net").left = 75

(***************************************************************************)
(* The docker, kubernetes and security panels of the power box             *)
(* (specification PanelSpec).                                              *)
(***************************************************************************)
\* the snapshot with nothing to list in any panel
WithoutDemand(data) ==
    [data EXCEPT !.docker.containers = 0, !.docker.total = 0,
                 !.docker.running = 0, !.kubernetes.pods = 0,
                 !.security.top_ips = <<>>]

\* the panels of the group: whether active, rows granted, items to list,
\* what was drawn
PanelGroup ==
    {[active |-> split.has_docker, granted |-> split.lines.docker_lines,
      demand |-> cache.docker.containers, drawn |-> split.panels.docker],
     [active |-> split.has_k8s, granted |-> split.lines.k8s_lines,
      demand |-> cache.kubernetes.pods, drawn |-> split.panels.k8s],
     [active |-> split.has_security, granted |-> split.lines.security_lines,
      demand |-> Len(cache.security.top_ips), drawn |-> split.panels.security]}

RowsDrawn(drawn) == drawn.header + drawn.items

\* C24: the rows granted to a panel are those granted when no panel has
\* anything to list; a panel that is active and was granted a row draws one
\* header row and min(demand, granted - 1) item rows, any other panel
\* draws nothing; the rows of the three panels end at or before the last
\* row of the power box.
C24_PanelRows ==
    (FrameDrawn /\ split.computed) =>
        /\ split.lines
             = PowerPanel(term.h, term.w, layout_mode, WithoutDemand(cache)).lines
        /\ \A p \in PanelGroup :
             IF p.active /\ p.granted > 0
             THEN /\ p.drawn.header = 1
                  /\ p.drawn.items = Min(p.demand, p.granted - 1)
             ELSE RowsDrawn(p.drawn) = 0
        /\ split.panels.security.line
             = split.first_line + RowsDrawn(split.panels.docker)
                 + RowsDrawn(split.panels.k8s) + RowsDrawn(split.panels.security)
        /\ split.panels.security.line <= split.ph

\* all three panels drawn, one cut to its rows and one listing all it has
C24_Witness ==
    /\ FrameDrawn /\ split.computed
    /\ split.has_docker /\ split.has_k8s /\ split.has_security
    /\ cache.docker.containers = MaxListed
    /\ split.panels.docker.items = split.lines.docker_lines - 1
    /\ split.panels.docker.items < cache.docker.containers
    /\ cache.kubernetes.pods = 1
    /\ split.panels.k8s.items = 1
    /\ split.panels.security.items > 0


(***************************************************************************)
(* The summary line of the service loop (specification LineSpec).          *)
(***************************************************************************)
LinePrinted == pc = "printed"

LastPiece == log_line[Len(log_line)]

PiecesWith(text) == {i \in 1..Len(log_line) : log_line[i].text = text}

\* C25 (as claimed): the line ends with "ALERTS: " and the name:value pairs
\* of all alerts in the order check_alerts returned them when there is an
\* alert, and with "ALERTS: OK" when there is none; the "PWR: ...W | " piece
\* is in the line exactly when energy is available.
C25_SummaryLine ==
    LinePrinted =>
        /\ active_alerts # <<>> =>
             /\ LastPiece.text = "ALERTS: {alert_str}"
             /\ LastPiece.args = AlertStr(active_alerts)
        /\ active_alerts = <<>> => LastPiece.text = "ALERTS: OK"
        /\ cache.energy.available
             <=> PiecesWith("PWR: {power_watts:5.1f}W | ") # {}

\* C25, the line as the code builds it: without alerts it ends with "OK"
\* after the " | " of the piece before, and "ALERTS: " is not in it.
C25_SummaryLineBuilt ==
    LinePrinted =>
        /\ active_alerts # <<>> =>
             /\ LastPiece.text = "ALERTS: {alert_str}"
             /\ LastPiece.args = AlertStr(active_alerts)
        /\ active_alerts = <<>> =>
             /\ LastPiece.text = "OK"
             /\ PiecesWith("ALERTS: {alert_str}") = {}
        /\ cache.energy.available
             <=> PiecesWith("PWR: {power_watts:5.1f}W | ") # {}

\* a line printed with no alert and an energy reading
C25_NoAlertLine ==
    /\ LinePrinted
    /\ active_alerts = <<>>
    /\ cache.energy.available
    /\ LastPiece.text = "OK"


(***************************************************************************)
(* The gate and the sources of get_security_logs (specification SecSpec).  *)
(***************************************************************************)
\* a step that is a call of get_security_logs made while the gate is closed
GatedCall == now' = now /\ now - last_security_check < SecurityInterval

\* C26: a get_security_logs call made less than 5 s after the previous pass
\* returns the stored result and changes nothing: the events, the tracker,
\* both history buffers and the time of the last pass are unchanged, no
\* source is read and nothing is pruned.
C26_GatedCallChangesNothing ==
    [][GatedCall =>
         /\ ~sec_call'.ran
         /\ UNCHANGED <<security_cache, security_events, ip_failure_tracker,
                        failed_login_history, suspicious_ip_history,
                        last_security_check, pruned_ts>>
         /\ sec_call'.tails = <<>>
         /\ sec_call'.analysed = 0]_vars

\* a call stopped by the gate at a time when a pass would have pruned an
\* event
C26_Witness ==
    /\ ~sec_call.ran
    /\ sec_call.elapsed > 0
    /\ sec_call.elapsed < SecurityInterval
    /\ security_events # <<>>
    /\ PruneEvents(security_events, now - failed_login_window) # security_events

\* the sources that hold output at the last call
YieldingSources ==
    {i \in 1..Len(sec_call.logs) :
        sec_call.logs[i].exists /\ HasOutput(sec_call.logs[i].output)}

\* the first of them in the configured order (0: none)
FirstSource ==
    IF YieldingSources = {} THEN 0
    ELSE CHOOSE i \in YieldingSources : \A j \in YieldingSources : i <= j

NonBlank(output) == Count(output, LAMBDA l : l.kind # "blank")

\* C27: in a pass the sources are tried in the configured order; a source
\* that does not exist is not read and one that prints nothing is passed
\* over; the first source with output is the only one whose lines are
\* classified and counted, and no source after it is read.
C27_FirstYieldingSourceOnly ==
    sec_call.ran =>
        /\ \A i, j \in 1..Len(sec_call.tails) :
             i < j => sec_call.tails[i] < sec_call.tails[j]
        /\ Range(sec_call.tails)
             = {i \in 1..Len(sec_call.logs) :
                  /\ sec_call.logs[i].exists
                  /\ FirstSource = 0 \/ i <= FirstSource}
        /\ sec_call.analysed = FirstSource
        /\ security_cache.available <=> FirstSource > 0
        /\ FirstSource > 0 =>
             /\ sec_call.lines = sec_call.logs[FirstSource].output
             /\ security_cache.total_parsed
                  = NonBlank(sec_call.logs[FirstSource].output)
        /\ FirstSource = 0 => security_cache.total_parsed = 0

\* a pass where the first log is missing, the second is analysed and the
\* third, which holds lines too, is not read
C27_Witness ==
    /\ sec_call.ran
    /\ ~sec_call.logs[1].exists
    /\ sec_call.analysed = 2
    /\ sec_call.tails = <<2>>
    /\ HasOutput(sec_call.logs[3].output)
    /\ security_cache.total_parsed = 1

\* the lines of a tail that are failures of an address: the invalid_user or
\* the failed_password pattern is found in them
FailuresFor(lines, ip) ==
    Count(lines, LAMBDA l : /\ l.kind # "blank"
                            /\ l.ip = ip
                            /\ \/ Search("invalid_user", l)
                               \/ Search("failed_password", l))

\* the timestamps of an address that a pass at time t keeps
KeptTimes(ip, t) ==
    SelectSeq(TrackerTimes(ip_failure_tracker, ip),
              LAMBDA x : x > t - failed_login_window)

BruteAlertsAfterFor(ip) ==
    SelectSeq(security_cache'.alerts,
              LAMBDA a : a.type = "brute_force" /\ a.ip = ip)

RefreshRateInRange ==
    refresh_rate >= MinRefreshRate /\ refresh_rate <= MaxRefreshRate

\* C28 (as claimed): in every state of the draw loop the refresh rate is
\* within 1..10, its first value being the refresh_rate of the
\* configuration; a step that changes it is a '+' that lowers it by one or
\* a '-' that raises it by one, the result staying within 1..10.
C28_RefreshRateRange ==
    /\ [] RefreshRateInRange
    /\ [][refresh_rate' # refresh_rate =>
            /\ keys' = keys + 1
            /\ refresh_rate' \in {refresh_rate - 1, refresh_rate + 1}
            /\ refresh_rate' >= MinRefreshRate
            /\ refresh_rate' <= MaxRefreshRate]_vars

\* C28, the rate as the keys leave it: a step changes it to
\* max(1, rate - 1) or to min(10, rate + 1), and a rate within 1..10 stays
\* within 1..10.
C28_RefreshRateKept ==
    [][/\ refresh_rate' # refresh_rate =>
            /\ keys' = keys + 1
            /\ \/ refresh_rate' = Max(MinRefreshRate, refresh_rate - 1)
               \/ refresh_rate' = Min(MaxRefreshRate, refresh_rate + 1)
       /\ RefreshRateInRange => RefreshRateInRange']_vars

\* a frame drawn at a configured rate above 10
C28_RateAboveRange ==
    /\ pc = "input"
    /\ keys = 0
    /\ refresh_rate = MaxConfigRate


(***************************************************************************)
(* The docker availability flag (specification DockerSpec).                *)
(***************************************************************************)
\* a step in which update_data passed its gate and called get_docker_info
DockerCalled == last_update' # last_update

\* C29: once the docker availability flag is False it is never True or
\* unknown again, and every later get_docker_info call runs no command and
\* returns the empty result with available = False, whatever the host's
\* docker is at that time.
C29_DockerUnavailableForGood ==
    [][docker_available = "False" =>
         /\ docker_available' = "False"
         /\ DockerCalled =>
              /\ docker_call'.commands = <<>>
              /\ cache'.docker = DockerUnavailable]_vars

\* a call made with the flag False, after a listing had succeeded, on a
\* host whose docker answers again
C29_Witness ==
    /\ docker_call.called
    /\ docker_call.flag = "False"
    /\ docker_call.docker = "up"
    /\ "_docker_stats_cache" \in attrs
    /\ docker_available = "False"
    /\ ~cache.docker.available

=============================================================================
